---- MODULE Spec2Model ----
(***************************************************************************)
(* Market Truth Framework: LayerOutput normalisation, the SynthesisEngine  *)
(* (weight resolution, structural patterns, weighted score, belief state,  *)
(* action resolution) and MarketTruthFramework.analyze with its temporal   *)
(* tracking step.                                                          *)
(*                                                                         *)
(* Python floats are modelled as exact rationals <<n, d>> (d > 0, lowest   *)
(* terms); Python dicts as functions whose DOMAIN is the key set; Python   *)
(* lists as sequences; None as the string "None".                          *)
(***************************************************************************)
EXTENDS Integers, Sequences, FiniteSets, TLC

VARIABLES industry_weights, default_weights, history, pc, analysis, sector,
          industry, normalized_layers, synthesis, exc, raised, call, saves

vars == <<industry_weights, default_weights, history, pc, analysis, sector,
          industry, normalized_layers, synthesis, exc, raised, call, saves>>

(***************************************************************************)
(* Bounds of the model.                                                    *)
(***************************************************************************)
\* longest history file found on disk when analyze starts
MaxHistory == 1
\* number of canonical layers whose score ranges freely in direct calls
\* of the scorer and of synthesize
MaxVaried == 3
\* longest flag list of a raw output given to normalize directly
MaxFlags == 4

(***************************************************************************)
(* Exact rational arithmetic standing for float arithmetic.                *)
(***************************************************************************)
RECURSIVE GCD(_, _)
GCD(a, b) == IF b = 0 THEN a ELSE GCD(b, a % b)

Abs(x) == IF x < 0 THEN -x ELSE x

R(n, d) ==
    LET g == GCD(Abs(n), d)
    IN  IF n = 0 THEN <<0, 1>> ELSE <<n \div g, d \div g>>

ToR(i) == <<i, 1>>
RAdd(x, y) == R(x[1] * y[2] + y[1] * x[2], x[2] * y[2])
RSub(x, y) == R(x[1] * y[2] - y[1] * x[2], x[2] * y[2])
RMul(x, y) == R(x[1] * y[1], x[2] * y[2])
\* x / y for y > 0
RDiv(x, y) == R(x[1] * y[2], x[2] * y[1])
RLt(x, y) == x[1] * y[2] < y[1] * x[2]
RLe(x, y) == x[1] * y[2] <= y[1] * x[2]
RGt(x, y) == RLt(y, x)
RGe(x, y) == RLe(y, x)
RMin(x, y) == IF RLe(x, y) THEN x ELSE y

\* round(x, 2) for x >= 0: nearest hundredth, ties to even
Round2(x) ==
    LET n == x[1] * 100
        q == n \div x[2]
        r == n % x[2]
        up == \/ 2 * r > x[2]
              \/ 2 * r = x[2] /\ q % 2 = 1
    IN  R(IF up THEN q + 1 ELSE q, 100)

(***************************************************************************)
(* Python dict and list helpers.                                           *)
(***************************************************************************)
None == "None"
EmptyDict == <<>>

\* d.get(k, default)
Get(d, k, default) == IF k \in DOMAIN d THEN d[k] ELSE default

\* x in list
InList(x, l) == \E i \in 1..Len(l) : l[i] = x

RECURSIVE SumOver(_, _)
SumOver(S, f) ==
    IF S = {} THEN 0
    ELSE LET x == CHOOSE y \in S : TRUE
         IN  f[x] + SumOver(S \ {x}, f)

RECURSIVE RSumOver(_, _)
RSumOver(S, f) ==
    IF S = {} THEN <<0, 1>>
    ELSE LET x == CHOOSE y \in S : TRUE
         IN  RAdd(f[x], RSumOver(S \ {x}, f))

\* a value of analysis['layers']: a dict, or something that is not a dict
PyDict(d) == [type |-> "dict", val |-> d]
PyNone == [type |-> "NoneType"]
IsDict(v) == v.type = "dict"

(***************************************************************************)
(* layer_schema.py                                                         *)
(***************************************************************************)
critical_flags ==
    <<"NEGATIVE_FREE_CASH_FLOW", "LOW_INTEREST_COVERAGE",
      "REVENUE_UP_CASH_DOWN", "DECLINING_REVENUE", "BANKRUPTCY_RISK">>

high_risk_flags ==
    <<"HIGH_DEBT_TO_EBITDA", "SLOW_COLLECTIONS", "INVENTORY_BUILDING",
      "INSIDER_HEAVY_SELLING">>

\* the comparison of the flag counts made non-strict
LenExceeds15_or_equal(a, b) == 2 * Len(a) >= 3 * Len(b)

\* len(a) > len(b) * 1.5
LenExceeds15(a, b) == 2 * Len(a) > 3 * Len(b)

Trajectory(score, red_flags, green_flags) ==
    IF LenExceeds15(green_flags, red_flags) THEN "improving"
    ELSE IF LenExceeds15(red_flags, green_flags) THEN "deteriorating"
    ELSE IF score > 0 THEN "stable"
    ELSE "unknown"

\* the for loop over red_flags, from position i with the level found so far
RECURSIVE RiskScan(_, _, _)
RiskScan(red_flags, i, level) ==
    IF i > Len(red_flags) THEN level
    ELSE IF InList(red_flags[i], critical_flags) THEN "critical"
    ELSE IF InList(red_flags[i], high_risk_flags)
         THEN RiskScan(red_flags, i + 1, "high")
    ELSE RiskScan(red_flags, i + 1, level)

\* the loop leaving at the first flag found in either list
RiskLevel_first_listed_flag(red_flags) ==
    LET listed == {i \in 1..Len(red_flags) :
                      \/ InList(red_flags[i], critical_flags)
                      \/ InList(red_flags[i], high_risk_flags)}
        first == CHOOSE i \in listed : \A j \in listed : i <= j
    IN  IF listed # {}
        THEN IF InList(red_flags[first], critical_flags) THEN "critical"
             ELSE "high"
        ELSE IF Len(red_flags) > 3 THEN "medium"
        ELSE IF Len(red_flags) > 0 THEN "low"
        ELSE "minimal"

RiskLevel(red_flags) ==
    LET scanned == RiskScan(red_flags, 1, "minimal")
    IN  IF scanned = "minimal" /\ Len(red_flags) > 3 THEN "medium"
        ELSE IF scanned = "minimal" /\ Len(red_flags) > 0 THEN "low"
        ELSE scanned

NonSignalKeys ==
    {"score", "red_flags", "green_flags", "timestamp", "ticker", "error"}

\* LayerOutput.normalize(raw_output)
normalize(raw_output) ==
    LET score == Get(raw_output, "score", 5)
        red_flags == Get(raw_output, "red_flags", <<>>)
        green_flags == Get(raw_output, "green_flags", <<>>)
    IN  [score |-> score,
         normalized_score |-> Round2(R(score, 10)),
         trajectory |-> Trajectory(score, red_flags, green_flags),
         risk_level |-> RiskLevel(red_flags),
         risk_flags |-> red_flags,
         strength_flags |-> green_flags,
         core_signals |->
             [k \in DOMAIN raw_output \ NonSignalKeys |-> raw_output[k]],
         raw_data |-> raw_output]

\* create_empty with the score 0 of the error dicts
create_empty_zero_score(reason) ==
    [score |-> 0,
     normalized_score |-> ToR(0),
     trajectory |-> "unknown",
     risk_level |-> "medium",
     risk_flags |-> <<>>,
     strength_flags |-> <<>>,
     core_signals |-> [note |-> reason],
     raw_data |-> EmptyDict]

\* LayerOutput.create_empty(reason)
create_empty(reason) ==
    [score |-> 5,
     normalized_score |-> R(1, 2),
     trajectory |-> "unknown",
     risk_level |-> "medium",
     risk_flags |-> <<>>,
     strength_flags |-> <<>>,
     core_signals |-> [note |-> reason],
     raw_data |-> EmptyDict]

(***************************************************************************)
(* synthesis_engine.py                                                     *)
(***************************************************************************)
\* the keys of the weight table and of its entries that begin with '_'
UnderscoreKeys == {"_default_weights", "_description"}

\* k.startswith('_')
StartsWithUnderscore(k) == k \in UnderscoreKeys

\* truth value of an Optional[str]
Truthy(s) == s # None /\ s # ""

\* {k: v for k, v in entry.items() if not k.startswith('_')}
WithoutPrivate(entry) ==
    [k \in {j \in DOMAIN entry : ~StartsWithUnderscore(j)} |-> entry[k]]

\* __init__ leaving the default weights empty
LoadDefault_ignored(table) == EmptyDict

\* self.industry_weights.get('_default_weights', {})
LoadDefault(table) == Get(table, "_default_weights", EmptyDict)

\* _get_weights trying the sector before the industry
_get_weights_sector_first(sec, ind) ==
    IF Truthy(sec) /\ sec \in DOMAIN industry_weights
    THEN WithoutPrivate(industry_weights[sec])
    ELSE IF Truthy(ind) /\ ind \in DOMAIN industry_weights
    THEN WithoutPrivate(industry_weights[ind])
    ELSE default_weights

\* SynthesisEngine._get_weights(sector, industry)
_get_weights(sec, ind) ==
    IF Truthy(ind) /\ ind \in DOMAIN industry_weights
    THEN WithoutPrivate(industry_weights[ind])
    ELSE IF Truthy(sec) /\ sec \in DOMAIN industry_weights
    THEN WithoutPrivate(industry_weights[sec])
    ELSE default_weights

\* [layer.get('trajectory') for layer in layers.values()].count(t)
TrajectoryCount(layers, t) ==
    Cardinality({l \in DOMAIN layers : Get(layers[l], "trajectory", None) = t})

\* np.std(scores) compared with a bound b, on the population variance:
\* std < b  iff  n*sum(x^2) - sum(x)^2 < b^2 * n^2
ScoredLayers(layers) == {l \in DOMAIN layers : "score" \in DOMAIN layers[l]}

VarianceTimesN2(layers) ==
    LET S == ScoredLayers(layers)
        n == Cardinality(S)
        sum == SumOver(S, [l \in S |-> layers[l].score])
        sumsq == SumOver(S, [l \in S |-> layers[l].score * layers[l].score])
    IN  n * sumsq - sum * sum

Consistency(layers) ==
    LET n == Cardinality(ScoredLayers(layers))
    IN  IF n = 0 THEN "NONE"
        ELSE IF VarianceTimesN2(layers) < 4 * n * n THEN "HIGH"
        ELSE IF VarianceTimesN2(layers) > 16 * n * n THEN "CONFLICTING"
        ELSE "NONE"

\* the message a rule appends when it holds
AppendIf(cond, list, msg) == IF cond THEN Append(list, msg) ELSE list

\* _analyze_structural_patterns with rule 5 disqualifying like rules 1 to 4
_analyze_structural_patterns_rule5_disqualifies(layers) ==
    LET business == Get(layers, "business_model", EmptyDict)
        financial == Get(layers, "financial_truth", EmptyDict)
        management == Get(layers, "management", EmptyDict)
        competitive == Get(layers, "competitive", EmptyDict)
        frisk == Get(financial, "risk_flags", <<>>)
        brisk == Get(business, "risk_flags", <<>>)
        rule1 == /\ Get(financial, "risk_level", None) \in {"critical", "high"}
                 /\ InList("NEGATIVE_FREE_CASH_FLOW", frisk)
                 /\ InList("INSIDER_HEAVY_SELLING",
                           Get(management, "risk_flags", <<>>))
        rule2 == /\ InList("DECLINING_REVENUE", brisk)
                 /\ InList("REVENUE_UP_CASH_DOWN", frisk)
        rule3 == /\ InList("NEGATIVE_FREE_CASH_FLOW", frisk)
                 /\ InList("HIGH_DEBT_TO_EBITDA", frisk)
        rule4 == /\ InList("LOW_INTEREST_COVERAGE", frisk)
                 /\ Get(financial, "trajectory", None) = "deteriorating"
        rule5 == /\ Get(competitive, "risk_level", None) \in {"high", "critical"}
                 /\ InList("LOW_MARGINS", brisk)
        o1 == AppendIf(rule1, <<>>,
                "FINANCIAL_DISTRESS + INSIDER_SELLING = Management bailing before bankruptcy")
        o2 == AppendIf(rule2, o1,
                "DECLINING_REVENUE + CASH_FLOW_DETERIORATION = Business dying")
        o3 == AppendIf(rule3, o2,
                "NEGATIVE_FCF + HIGH_DEBT = Cannot service debt, distress imminent")
        o4 == AppendIf(rule4, o3,
                "LOW_COVERAGE + DETERIORATING = Death spiral beginning")
        o5 == AppendIf(rule5, o4,
                "COMPETITIVE_PRESSURE + LOW_MARGINS = No moat, commodity pricing")
        strong == /\ Get(business, "score", 0) >= 7
                  /\ Get(financial, "score", 0) >= 7
        improving_count == TrajectoryCount(layers, "improving")
        deteriorating_count == TrajectoryCount(layers, "deteriorating")
        broad == improving_count >= 3 /\ deteriorating_count = 0
        compounder == /\ Get(business, "score", 0) >= 8
                      /\ Get(financial, "trajectory", None) = "improving"
        p1 == AppendIf(strong, <<>>, "STRONG_FUNDAMENTALS")
        p2 == AppendIf(broad, p1, "BROAD_IMPROVEMENT")
        p3 == AppendIf(compounder, p2, "COMPOUNDER_PROFILE")
        consistency == Consistency(layers)
        p4 == AppendIf(consistency = "CONFLICTING", p3, "MIXED_SIGNALS")
    IN  [disqualify |-> rule1 \/ rule2 \/ rule3 \/ rule4 \/ rule5,
         amplify |-> strong \/ broad,
         override_rules_triggered |-> o5,
         pattern_matches |-> p4,
         cross_layer_signals |->
             IF consistency = "NONE" THEN EmptyDict
             ELSE [consistency |-> consistency]]

\* _analyze_structural_patterns with the compounder pattern amplifying
_analyze_structural_patterns_compounder_amplifies(layers) ==
    LET business == Get(layers, "business_model", EmptyDict)
        financial == Get(layers, "financial_truth", EmptyDict)
        management == Get(layers, "management", EmptyDict)
        competitive == Get(layers, "competitive", EmptyDict)
        frisk == Get(financial, "risk_flags", <<>>)
        brisk == Get(business, "risk_flags", <<>>)
        rule1 == /\ Get(financial, "risk_level", None) \in {"critical", "high"}
                 /\ InList("NEGATIVE_FREE_CASH_FLOW", frisk)
                 /\ InList("INSIDER_HEAVY_SELLING",
                           Get(management, "risk_flags", <<>>))
        rule2 == /\ InList("DECLINING_REVENUE", brisk)
                 /\ InList("REVENUE_UP_CASH_DOWN", frisk)
        rule3 == /\ InList("NEGATIVE_FREE_CASH_FLOW", frisk)
                 /\ InList("HIGH_DEBT_TO_EBITDA", frisk)
        rule4 == /\ InList("LOW_INTEREST_COVERAGE", frisk)
                 /\ Get(financial, "trajectory", None) = "deteriorating"
        rule5 == /\ Get(competitive, "risk_level", None) \in {"high", "critical"}
                 /\ InList("LOW_MARGINS", brisk)
        o1 == AppendIf(rule1, <<>>,
                "FINANCIAL_DISTRESS + INSIDER_SELLING = Management bailing before bankruptcy")
        o2 == AppendIf(rule2, o1,
                "DECLINING_REVENUE + CASH_FLOW_DETERIORATION = Business dying")
        o3 == AppendIf(rule3, o2,
                "NEGATIVE_FCF + HIGH_DEBT = Cannot service debt, distress imminent")
        o4 == AppendIf(rule4, o3,
                "LOW_COVERAGE + DETERIORATING = Death spiral beginning")
        o5 == AppendIf(rule5, o4,
                "COMPETITIVE_PRESSURE + LOW_MARGINS = No moat, commodity pricing")
        strong == /\ Get(business, "score", 0) >= 7
                  /\ Get(financial, "score", 0) >= 7
        improving_count == TrajectoryCount(layers, "improving")
        deteriorating_count == TrajectoryCount(layers, "deteriorating")
        broad == improving_count >= 3 /\ deteriorating_count = 0
        compounder == /\ Get(business, "score", 0) >= 8
                      /\ Get(financial, "trajectory", None) = "improving"
        p1 == AppendIf(strong, <<>>, "STRONG_FUNDAMENTALS")
        p2 == AppendIf(broad, p1, "BROAD_IMPROVEMENT")
        p3 == AppendIf(compounder, p2, "COMPOUNDER_PROFILE")
        consistency == Consistency(layers)
        p4 == AppendIf(consistency = "CONFLICTING", p3, "MIXED_SIGNALS")
    IN  [disqualify |-> rule1 \/ rule2 \/ rule3 \/ rule4,
         amplify |-> strong \/ broad \/ compounder,
         override_rules_triggered |-> o5,
         pattern_matches |-> p4,
         cross_layer_signals |->
             IF consistency = "NONE" THEN EmptyDict
             ELSE [consistency |-> consistency]]

\* SynthesisEngine._analyze_structural_patterns(layers)
_analyze_structural_patterns(layers) ==
    LET business == Get(layers, "business_model", EmptyDict)
        financial == Get(layers, "financial_truth", EmptyDict)
        management == Get(layers, "management", EmptyDict)
        competitive == Get(layers, "competitive", EmptyDict)
        frisk == Get(financial, "risk_flags", <<>>)
        brisk == Get(business, "risk_flags", <<>>)
        rule1 == /\ Get(financial, "risk_level", None) \in {"critical", "high"}
                 /\ InList("NEGATIVE_FREE_CASH_FLOW", frisk)
                 /\ InList("INSIDER_HEAVY_SELLING",
                           Get(management, "risk_flags", <<>>))
        rule2 == /\ InList("DECLINING_REVENUE", brisk)
                 /\ InList("REVENUE_UP_CASH_DOWN", frisk)
        rule3 == /\ InList("NEGATIVE_FREE_CASH_FLOW", frisk)
                 /\ InList("HIGH_DEBT_TO_EBITDA", frisk)
        rule4 == /\ InList("LOW_INTEREST_COVERAGE", frisk)
                 /\ Get(financial, "trajectory", None) = "deteriorating"
        rule5 == /\ Get(competitive, "risk_level", None) \in {"high", "critical"}
                 /\ InList("LOW_MARGINS", brisk)
        o1 == AppendIf(rule1, <<>>,
                "FINANCIAL_DISTRESS + INSIDER_SELLING = Management bailing before bankruptcy")
        o2 == AppendIf(rule2, o1,
                "DECLINING_REVENUE + CASH_FLOW_DETERIORATION = Business dying")
        o3 == AppendIf(rule3, o2,
                "NEGATIVE_FCF + HIGH_DEBT = Cannot service debt, distress imminent")
        o4 == AppendIf(rule4, o3,
                "LOW_COVERAGE + DETERIORATING = Death spiral beginning")
        o5 == AppendIf(rule5, o4,
                "COMPETITIVE_PRESSURE + LOW_MARGINS = No moat, commodity pricing")
        strong == /\ Get(business, "score", 0) >= 7
                  /\ Get(financial, "score", 0) >= 7
        improving_count == TrajectoryCount(layers, "improving")
        deteriorating_count == TrajectoryCount(layers, "deteriorating")
        broad == improving_count >= 3 /\ deteriorating_count = 0
        compounder == /\ Get(business, "score", 0) >= 8
                      /\ Get(financial, "trajectory", None) = "improving"
        p1 == AppendIf(strong, <<>>, "STRONG_FUNDAMENTALS")
        p2 == AppendIf(broad, p1, "BROAD_IMPROVEMENT")
        p3 == AppendIf(compounder, p2, "COMPOUNDER_PROFILE")
        consistency == Consistency(layers)
        p4 == AppendIf(consistency = "CONFLICTING", p3, "MIXED_SIGNALS")
    IN  [disqualify |-> rule1 \/ rule2 \/ rule3 \/ rule4,
         amplify |-> strong \/ broad,
         override_rules_triggered |-> o5,
         pattern_matches |-> p4,
         cross_layer_signals |->
             IF consistency = "NONE" THEN EmptyDict
             ELSE [consistency |-> consistency]]

\* the keys of layer_mapping
CanonicalLayers ==
    {"business_model", "financial_truth", "management", "market_structure",
     "competitive", "macro", "risk"}

\* weight_sum counting the layers instead of adding their weights
WeightSum_counts_layers(used, weight) == ToR(Cardinality(used))

\* weight_sum after the loop over layer_mapping
WeightSum(used, weight) == RSumOver(used, weight)

\* the scorer looping over every layer of the input instead of layer_mapping
_calculate_weighted_score_all_layers(layers, weights) ==
    LET used == DOMAIN layers
        raw == [l \in used |-> Get(layers[l], "score", 5)]
        weight == [l \in used |-> Get(weights, l, R(1, 1))]
        weighted == [l \in used |-> RMul(ToR(raw[l]), weight[l])]
        weighted_total == RSumOver(used, weighted)
        max_possible == RMul(ToR(10), RSumOver(used, weight))
        normalized_score ==
            IF RGt(max_possible, ToR(0))
            THEN RMul(RDiv(weighted_total, max_possible), ToR(100))
            ELSE ToR(50)
        breakdown == [l \in used |->
                        [raw |-> raw[l], weight |-> weight[l],
                         weighted |-> weighted[l]]]
    IN  <<normalized_score, breakdown>>

\* SynthesisEngine._calculate_weighted_score(layers, weights)
_calculate_weighted_score(layers, weights) ==
    LET used == CanonicalLayers \cap DOMAIN layers
        raw == [l \in used |-> Get(layers[l], "score", 5)]
        weight == [l \in used |-> Get(weights, l, R(1, 1))]
        weighted == [l \in used |-> RMul(ToR(raw[l]), weight[l])]
        weighted_total == RSumOver(used, weighted)
        weight_sum == WeightSum(used, weight)
        max_possible == RMul(ToR(10), weight_sum)
        normalized_score ==
            IF RGt(max_possible, ToR(0))
            THEN RMul(RDiv(weighted_total, max_possible), ToR(100))
            ELSE ToR(50)
        breakdown == [l \in used |->
                        [raw |-> raw[l], weight |-> weight[l],
                         weighted |-> weighted[l]]]
    IN  <<normalized_score, breakdown>>

\* the returned dict with a neutral_prob that forgets distress_prob
BeliefDict_forgets_distress(bull_prob, bear_prob, distress_prob) ==
    [bull_prob |-> bull_prob,
     bear_prob |-> bear_prob,
     distress_prob |-> distress_prob,
     neutral_prob |-> RSub(RSub(ToR(1), bull_prob), bear_prob)]

\* the returned dict of _compute_belief_state
BeliefDict(bull_prob, bear_prob, distress_prob) ==
    [bull_prob |-> bull_prob,
     bear_prob |-> bear_prob,
     distress_prob |-> distress_prob,
     neutral_prob |->
         RSub(RSub(RSub(ToR(1), bull_prob), bear_prob), distress_prob)]

\* "Normalize probabilities" dividing by the total whatever it is
NormalizeProbs_always_divides(bull_prob, bear_prob, distress_prob) ==
    LET total == RAdd(RAdd(bull_prob, bear_prob), distress_prob)
    IN  BeliefDict(RDiv(bull_prob, total), RDiv(bear_prob, total),
                   RDiv(distress_prob, total))

\* the probabilities returned as they are, never divided by their sum
NormalizeProbs_never_divides(bull_prob, bear_prob, distress_prob) ==
    BeliefDict(bull_prob, bear_prob, distress_prob)

\* "Normalize probabilities"
NormalizeProbs(bull_prob, bear_prob, distress_prob) ==
    LET total == RAdd(RAdd(bull_prob, bear_prob), distress_prob)
    IN  IF RGt(total, ToR(1))
        THEN BeliefDict(RDiv(bull_prob, total), RDiv(bear_prob, total),
                        RDiv(distress_prob, total))
        ELSE BeliefDict(bull_prob, bear_prob, distress_prob)

\* _compute_belief_state asking for more than 3 improving layers
_compute_belief_state_improving_above_three(layers, structural_analysis) ==
    LET financial == Get(layers, "financial_truth", EmptyDict)
        business == Get(layers, "business_model", EmptyDict)
        frl == Get(financial, "risk_level", None)
        bscore == Get(business, "score", 5)
        distress1 == IF frl = "critical" THEN RMul(R(5, 100), ToR(5))
                     ELSE IF frl = "high" THEN RMul(R(5, 100), ToR(3))
                     ELSE R(5, 100)
        bull1 == IF bscore >= 8 THEN RMul(R(3, 10), ToR(2))
                 ELSE IF bscore <= 3 THEN RMul(R(3, 10), R(3, 10))
                 ELSE R(3, 10)
        bear1 == IF bscore < 8 /\ bscore <= 3 THEN RMul(R(2, 10), ToR(2))
                 ELSE R(2, 10)
        improving_count == TrajectoryCount(layers, "improving")
        deteriorating_count == TrajectoryCount(layers, "deteriorating")
        bull2 == IF improving_count > 3 THEN RMul(bull1, R(15, 10)) ELSE bull1
        bear2 == IF deteriorating_count >= 3 THEN RMul(bear1, ToR(2)) ELSE bear1
        distress2 == IF deteriorating_count >= 3 THEN RMul(distress1, R(15, 10))
                     ELSE distress1
        disq == Get(structural_analysis, "disqualify", FALSE)
        bull3 == IF disq THEN R(5, 100) ELSE bull2
        bear3 == IF disq THEN R(7, 10) ELSE bear2
        distress3 == IF disq THEN RMin(RMul(distress2, ToR(2)), R(5, 10))
                     ELSE distress2
    IN  NormalizeProbs(bull3, bear3, distress3)

\* _compute_belief_state with the forcing step before the updates
_compute_belief_state_forces_before_updates(layers, structural_analysis) ==
    LET financial == Get(layers, "financial_truth", EmptyDict)
        business == Get(layers, "business_model", EmptyDict)
        frl == Get(financial, "risk_level", None)
        bscore == Get(business, "score", 5)
        disq == Get(structural_analysis, "disqualify", FALSE)
        bull0 == IF disq THEN R(5, 100) ELSE R(3, 10)
        bear0 == IF disq THEN R(7, 10) ELSE R(2, 10)
        distress0 == IF disq THEN RMin(RMul(R(5, 100), ToR(2)), R(5, 10))
                     ELSE R(5, 100)
        distress1 == IF frl = "critical" THEN RMul(distress0, ToR(5))
                     ELSE IF frl = "high" THEN RMul(distress0, ToR(3))
                     ELSE distress0
        bull1 == IF bscore >= 8 THEN RMul(bull0, ToR(2))
                 ELSE IF bscore <= 3 THEN RMul(bull0, R(3, 10))
                 ELSE bull0
        bear1 == IF bscore < 8 /\ bscore <= 3 THEN RMul(bear0, ToR(2))
                 ELSE bear0
        improving_count == TrajectoryCount(layers, "improving")
        deteriorating_count == TrajectoryCount(layers, "deteriorating")
        bull2 == IF improving_count >= 3 THEN RMul(bull1, R(15, 10)) ELSE bull1
        bear2 == IF deteriorating_count >= 3 THEN RMul(bear1, ToR(2)) ELSE bear1
        distress2 == IF deteriorating_count >= 3 THEN RMul(distress1, R(15, 10))
                     ELSE distress1
    IN  NormalizeProbs(bull2, bear2, distress2)

\* SynthesisEngine._compute_belief_state(layers, structural_analysis)
_compute_belief_state(layers, structural_analysis) ==
    LET financial == Get(layers, "financial_truth", EmptyDict)
        business == Get(layers, "business_model", EmptyDict)
        frl == Get(financial, "risk_level", None)
        bscore == Get(business, "score", 5)
        distress1 == IF frl = "critical" THEN RMul(R(5, 100), ToR(5))
                     ELSE IF frl = "high" THEN RMul(R(5, 100), ToR(3))
                     ELSE R(5, 100)
        bull1 == IF bscore >= 8 THEN RMul(R(3, 10), ToR(2))
                 ELSE IF bscore <= 3 THEN RMul(R(3, 10), R(3, 10))
                 ELSE R(3, 10)
        bear1 == IF bscore < 8 /\ bscore <= 3 THEN RMul(R(2, 10), ToR(2))
                 ELSE R(2, 10)
        improving_count == TrajectoryCount(layers, "improving")
        deteriorating_count == TrajectoryCount(layers, "deteriorating")
        bull2 == IF improving_count >= 3 THEN RMul(bull1, R(15, 10)) ELSE bull1
        bear2 == IF deteriorating_count >= 3 THEN RMul(bear1, ToR(2)) ELSE bear1
        distress2 == IF deteriorating_count >= 3 THEN RMul(distress1, R(15, 10))
                     ELSE distress1
        disq == Get(structural_analysis, "disqualify", FALSE)
        bull3 == IF disq THEN R(5, 100) ELSE bull2
        bear3 == IF disq THEN R(7, 10) ELSE bear2
        distress3 == IF disq THEN RMin(RMul(distress2, ToR(2)), R(5, 10))
                     ELSE distress2
    IN  NormalizeProbs(bull3, bear3, distress3)

\* rules 2 to 8 of _determine_action, with a final return that was lost
ScoreDecision_no_final_return(weighted_score, structural_analysis, belief_state) ==
    IF RGt(belief_state.distress_prob, R(2, 10))
    THEN <<"SHORT", "SHORT_CANDIDATE",
           <<"High bankruptcy risk", belief_state.distress_prob>>>>
    ELSE IF RGt(belief_state.bear_prob, R(5, 10))
    THEN <<"SHORT", "SHORT_CANDIDATE",
           <<"Structural bear case", belief_state.bear_prob>>>>
    ELSE IF RGe(weighted_score, ToR(65))
    THEN <<"MEDIUM", "BUY_MEDIUM",
           <<"Solid setup", weighted_score, belief_state.bull_prob>>>>
    ELSE IF RGe(weighted_score, ToR(55))
    THEN <<"LOW", "TRADE_ONLY", <<"Marginal case", weighted_score>>>>
    ELSE IF RGe(weighted_score, ToR(40))
    THEN <<"AVOID", "SPECULATION_ONLY", <<"Weak case", weighted_score>>>>
    ELSE <<None, None, None>>

\* rules 2 to 8 of _determine_action with the bear test after the bull test
ScoreDecision_bull_before_bear(weighted_score, structural_analysis, belief_state) ==
    IF RGt(belief_state.distress_prob, R(2, 10))
    THEN <<"SHORT", "SHORT_CANDIDATE",
           <<"High bankruptcy risk", belief_state.distress_prob>>>>
    ELSE IF RGt(belief_state.bull_prob, R(6, 10)) /\ RGe(weighted_score, ToR(70))
    THEN <<"HIGH", "BUY_HIGH_CONVICTION",
           <<"High conviction structural winner", belief_state.bull_prob,
             weighted_score,
             IF Get(structural_analysis, "amplify", FALSE)
             THEN structural_analysis.pattern_matches ELSE <<>> >>>>
    ELSE IF RGt(belief_state.bear_prob, R(5, 10))
    THEN <<"SHORT", "SHORT_CANDIDATE",
           <<"Structural bear case", belief_state.bear_prob>>>>
    ELSE IF RGe(weighted_score, ToR(65))
    THEN <<"MEDIUM", "BUY_MEDIUM",
           <<"Solid setup", weighted_score, belief_state.bull_prob>>>>
    ELSE IF RGe(weighted_score, ToR(55))
    THEN <<"LOW", "TRADE_ONLY", <<"Marginal case", weighted_score>>>>
    ELSE IF RGe(weighted_score, ToR(40))
    THEN <<"AVOID", "SPECULATION_ONLY", <<"Weak case", weighted_score>>>>
    ELSE <<"AVOID", "DO_NOT_TRADE", <<"Poor fundamentals", weighted_score>>>>

\* _determine_action after the disqualification test: the distress, bear,
\* bull and score rules; the reasoning string is kept as
\* <<template, values it formats>>
\* the decision chain with a non-strict test of bull_prob for HIGH
ScoreDecision_bull_at_least(weighted_score, structural_analysis, belief_state) ==
    IF RGt(belief_state.distress_prob, R(2, 10))
    THEN <<"SHORT", "SHORT_CANDIDATE",
           <<"High bankruptcy risk", belief_state.distress_prob>>>>
    ELSE IF RGt(belief_state.bear_prob, R(5, 10))
    THEN <<"SHORT", "SHORT_CANDIDATE",
           <<"Structural bear case", belief_state.bear_prob>>>>
    ELSE IF RGe(belief_state.bull_prob, R(6, 10)) /\ RGe(weighted_score, ToR(70))
    THEN <<"HIGH", "BUY_HIGH_CONVICTION",
           <<"High conviction structural winner", belief_state.bull_prob,
             weighted_score,
             IF Get(structural_analysis, "amplify", FALSE)
             THEN structural_analysis.pattern_matches ELSE <<>> >>>>
    ELSE IF RGe(weighted_score, ToR(65))
    THEN <<"MEDIUM", "BUY_MEDIUM",
           <<"Solid setup", weighted_score, belief_state.bull_prob>>>>
    ELSE IF RGe(weighted_score, ToR(55))
    THEN <<"LOW", "TRADE_ONLY", <<"Marginal case", weighted_score>>>>
    ELSE IF RGe(weighted_score, ToR(40))
    THEN <<"AVOID", "SPECULATION_ONLY", <<"Weak case", weighted_score>>>>
    ELSE <<"AVOID", "DO_NOT_TRADE", <<"Poor fundamentals", weighted_score>>>>

ScoreDecision(weighted_score, structural_analysis, belief_state) ==
    IF RGt(belief_state.distress_prob, R(2, 10))
    THEN <<"SHORT", "SHORT_CANDIDATE",
           <<"High bankruptcy risk", belief_state.distress_prob>>>>
    ELSE IF RGt(belief_state.bear_prob, R(5, 10))
    THEN <<"SHORT", "SHORT_CANDIDATE",
           <<"Structural bear case", belief_state.bear_prob>>>>
    ELSE IF RGt(belief_state.bull_prob, R(6, 10)) /\ RGe(weighted_score, ToR(70))
    THEN <<"HIGH", "BUY_HIGH_CONVICTION",
           <<"High conviction structural winner", belief_state.bull_prob,
             weighted_score,
             IF Get(structural_analysis, "amplify", FALSE)
             THEN structural_analysis.pattern_matches ELSE <<>> >>>>
    ELSE IF RGe(weighted_score, ToR(65))
    THEN <<"MEDIUM", "BUY_MEDIUM",
           <<"Solid setup", weighted_score, belief_state.bull_prob>>>>
    ELSE IF RGe(weighted_score, ToR(55))
    THEN <<"LOW", "TRADE_ONLY", <<"Marginal case", weighted_score>>>>
    ELSE IF RGe(weighted_score, ToR(40))
    THEN <<"AVOID", "SPECULATION_ONLY", <<"Weak case", weighted_score>>>>
    ELSE <<"AVOID", "DO_NOT_TRADE", <<"Poor fundamentals", weighted_score>>>>

\* _determine_action with the distress test moved before the
\* disqualification test
_determine_action_distress_first(weighted_score, structural_analysis, belief_state, layers) ==
    IF RGt(belief_state.distress_prob, R(2, 10))
    THEN <<"SHORT", "SHORT_CANDIDATE",
           <<"High bankruptcy risk", belief_state.distress_prob>>>>
    ELSE IF Get(structural_analysis, "disqualify", FALSE)
    THEN <<"AVOID", "DO_NOT_TRADE",
           <<"Structural disqualifiers",
             structural_analysis.override_rules_triggered>>>>
    ELSE ScoreDecision(weighted_score, structural_analysis, belief_state)

\* SynthesisEngine._determine_action(weighted_score, structural_analysis,
\*                                   belief_state, layers)
_determine_action(weighted_score, structural_analysis, belief_state, layers) ==
    IF Get(structural_analysis, "disqualify", FALSE)
    THEN <<"AVOID", "DO_NOT_TRADE",
           <<"Structural disqualifiers",
             structural_analysis.override_rules_triggered>>>>
    ELSE ScoreDecision(weighted_score, structural_analysis, belief_state)

\* SynthesisEngine.synthesize(layers, ticker, sector, industry)
synthesize(layers, ticker, sec, ind) ==
    LET weights == _get_weights(sec, ind)
        structural_analysis == _analyze_structural_patterns(layers)
        scored == _calculate_weighted_score(layers, weights)
        belief_state == _compute_belief_state(layers, structural_analysis)
        decided == _determine_action(scored[1], structural_analysis,
                                     belief_state, layers)
    IN  [ticker |-> ticker,
         weighted_score |-> Round2(scored[1]),
         raw_score |->
             SumOver(DOMAIN layers,
                     [l \in DOMAIN layers |-> Get(layers[l], "score", 5)]),
         conviction |-> decided[1],
         action |-> decided[2],
         reasoning |-> decided[3],
         weights_used |-> weights,
         score_breakdown |-> scored[2],
         structural_analysis |-> structural_analysis,
         belief_state |-> belief_state,
         disqualified |-> Get(structural_analysis, "disqualify", FALSE),
         override_rules |->
             Get(structural_analysis, "override_rules_triggered", <<>>)]

(***************************************************************************)
(* temporal_engine.py                                                      *)
(* A history file is [exists |-> FALSE] or [exists |-> TRUE, content |->   *)
(* the JSON document]; timestamps are left out of the documents.           *)
(***************************************************************************)
NoFile == [exists |-> FALSE]
FileOf(doc) == [exists |-> TRUE, content |-> doc]

\* "Load existing history" of save_analysis
LoadHistory(file, ticker) ==
    IF file.exists THEN file.content
    ELSE [ticker |-> ticker, analyses |-> <<>>]

\* "Create snapshot" and "Extract layer scores and flags" of save_analysis
Snapshot(analysis_, synthesis_) ==
    LET layers == Get(analysis_, "layers", EmptyDict)
        kept == {l \in DOMAIN layers : IsDict(layers[l])}
    IN  [layers |->
            [l \in kept |->
                [score |-> Get(layers[l].val, "score", 0),
                 trajectory |-> Get(layers[l].val, "trajectory", "unknown"),
                 risk_flags |-> Get(layers[l].val, "risk_flags", <<>>),
                 strength_flags |-> Get(layers[l].val, "strength_flags", <<>>),
                 risk_level |-> Get(layers[l].val, "risk_level", "unknown")]],
         synthesis |-> synthesis_,
         metadata |-> [version |-> "2.0"]]

\* save_analysis starting from an empty history whether the file exists or not
save_analysis_forgets_history(file, ticker, analysis_, synthesis_) ==
    FileOf([ticker |-> ticker,
            analyses |-> <<Snapshot(analysis_, synthesis_)>>])

\* TemporalEngine.save_analysis(ticker, analysis, synthesis): the file written
save_analysis(file, ticker, analysis_, synthesis_) ==
    LET loaded == LoadHistory(file, ticker)
    IN  FileOf([loaded EXCEPT
                  !.analyses = Append(@, Snapshot(analysis_, synthesis_))])

\* set(layer.get('risk_flags', []))
FlagSet(layer) ==
    LET flags == Get(layer, "risk_flags", <<>>)
    IN  {flags[i] : i \in 1..Len(flags)}

\* TemporalEngine._analyze_risk_drift(latest_layers, previous_layers)
_analyze_risk_drift(latest_layers, previous_layers) ==
    LET common == DOMAIN latest_layers \cap DOMAIN previous_layers
        all_latest_risks == UNION {FlagSet(latest_layers[l]) : l \in common}
        all_previous_risks == UNION {FlagSet(previous_layers[l]) : l \in common}
        new_risks == all_latest_risks \ all_previous_risks
        resolved_risks == all_previous_risks \ all_latest_risks
        persistent_risks == all_latest_risks \cap all_previous_risks
        changed == {l \in common :
                      Get(latest_layers[l], "risk_level", "unknown")
                      # Get(previous_layers[l], "risk_level", "unknown")}
    IN  [new_risks |-> new_risks,
         resolved_risks |-> resolved_risks,
         persistent_risks |-> persistent_risks,
         risk_level_change |->
            [l \in changed |->
                [from |-> Get(previous_layers[l], "risk_level", "unknown"),
                 to |-> Get(latest_layers[l], "risk_level", "unknown")]],
         overall_drift |->
            IF Cardinality(new_risks) > Cardinality(resolved_risks)
            THEN "DETERIORATING"
            ELSE IF Cardinality(resolved_risks) > Cardinality(new_risks)
            THEN "IMPROVING"
            ELSE IF Cardinality(persistent_risks) > 5 THEN "PERSISTENTLY_RISKY"
            ELSE "STABLE"]

\* the momentum dict labelling the size of the average, whatever its sign
Momentum_absolute_average(common, delta) ==
    IF common = {} THEN EmptyDict
    ELSE LET avg_delta == R(SumOver(common, delta), Cardinality(common))
         IN  [average_layer_delta |-> avg_delta,
              direction |->
                 IF RGt(avg_delta, R(1, 2)) THEN "IMPROVING"
                 ELSE IF RLt(avg_delta, R(-1, 2)) THEN "DETERIORATING"
                 ELSE "STABLE",
              acceleration |->
                 IF RGt(avg_delta, ToR(1)) \/ RLt(avg_delta, ToR(-1))
                 THEN "ACCELERATING"
                 ELSE IF RLt(avg_delta, ToR(-1)) THEN "DECELERATING"
                 ELSE "STEADY"]

\* the momentum dict with the thresholds of direction used for acceleration
Momentum_accelerates_at_half(common, delta) ==
    IF common = {} THEN EmptyDict
    ELSE LET avg_delta == R(SumOver(common, delta), Cardinality(common))
         IN  [average_layer_delta |-> avg_delta,
              direction |->
                 IF RGt(avg_delta, R(1, 2)) THEN "IMPROVING"
                 ELSE IF RLt(avg_delta, R(-1, 2)) THEN "DETERIORATING"
                 ELSE "STABLE",
              acceleration |->
                 IF RGt(avg_delta, R(1, 2)) THEN "ACCELERATING"
                 ELSE IF RLt(avg_delta, R(-1, 2)) THEN "DECELERATING"
                 ELSE "STEADY"]

\* the momentum dict of _compute_deltas, from the list of score changes
Momentum(common, delta) ==
    IF common = {} THEN EmptyDict
    ELSE LET avg_delta == R(SumOver(common, delta), Cardinality(common))
         IN  [average_layer_delta |-> avg_delta,
              direction |->
                 IF RGt(avg_delta, R(1, 2)) THEN "IMPROVING"
                 ELSE IF RLt(avg_delta, R(-1, 2)) THEN "DETERIORATING"
                 ELSE "STABLE",
              acceleration |->
                 IF RGt(avg_delta, ToR(1)) THEN "ACCELERATING"
                 ELSE IF RLt(avg_delta, ToR(-1)) THEN "DECELERATING"
                 ELSE "STEADY"]

\* TemporalEngine._generate_summary(deltas): headline and recommendation
_generate_summary(momentum, risk_drift, conviction_change) ==
    LET momentum_dir == Get(momentum, "direction", "STABLE")
        risk_dir == Get(risk_drift, "overall_drift", "STABLE")
    IN  [headline |->
            IF momentum_dir = "IMPROVING" /\ risk_dir \in {"IMPROVING", "STABLE"}
            THEN "[^] IMPROVING: Fundamentals strengthening"
            ELSE IF /\ momentum_dir = "DETERIORATING"
                    /\ risk_dir \in {"DETERIORATING", "PERSISTENTLY_RISKY"}
            THEN "[v] DETERIORATING: Red flags multiplying"
            ELSE IF momentum_dir = "STABLE" /\ risk_dir = "STABLE"
            THEN "[->] STABLE: No significant changes"
            ELSE "[!] MIXED: Conflicting signals",
         key_changes |->
            <<risk_drift.new_risks # {}, risk_drift.resolved_risks # {},
              Get(conviction_change, "changed", FALSE)>>,
         recommendation |->
            IF momentum_dir = "IMPROVING"
            THEN "Consider increasing position or initiating"
            ELSE IF momentum_dir = "DETERIORATING"
            THEN "Consider reducing position or exiting"
            ELSE "Hold current position, monitor closely"]

Direction(delta) ==
    IF delta > 0 THEN "improving"
    ELSE IF delta < 0 THEN "deteriorating" ELSE "stable"

\* TemporalEngine._compute_deltas(latest, previous, full_history)
_compute_deltas(latest, previous) ==
    LET latest_layers == Get(latest, "layers", EmptyDict)
        previous_layers == Get(previous, "layers", EmptyDict)
        common == DOMAIN latest_layers \cap DOMAIN previous_layers
        delta == [l \in common |->
                    Get(latest_layers[l], "score", 0)
                    - Get(previous_layers[l], "score", 0)]
        momentum == Momentum(common, delta)
        risk_drift == _analyze_risk_drift(latest_layers, previous_layers)
        latest_synth == Get(latest, "synthesis", EmptyDict)
        previous_synth == Get(previous, "synthesis", EmptyDict)
        conviction_change ==
            IF DOMAIN latest_synth # {} /\ DOMAIN previous_synth # {}
            THEN [previous_conviction |->
                     Get(previous_synth, "conviction", "UNKNOWN"),
                  latest_conviction |->
                     Get(latest_synth, "conviction", "UNKNOWN"),
                  previous_action |-> Get(previous_synth, "action", "UNKNOWN"),
                  latest_action |-> Get(latest_synth, "action", "UNKNOWN"),
                  changed |-> Get(latest_synth, "conviction", None)
                              # Get(previous_synth, "conviction", None)]
            ELSE EmptyDict
    IN  [layer_changes |->
            [l \in common |->
                [previous |-> Get(previous_layers[l], "score", 0),
                 latest |-> Get(latest_layers[l], "score", 0),
                 delta |-> delta[l],
                 direction |-> Direction(delta[l]),
                 trajectory_previous |->
                     Get(previous_layers[l], "trajectory", "unknown"),
                 trajectory_latest |->
                     Get(latest_layers[l], "trajectory", "unknown")]],
         risk_drift |-> risk_drift,
         conviction_change |-> conviction_change,
         momentum |-> momentum,
         summary |-> _generate_summary(momentum, risk_drift, conviction_change)]

\* get_temporal_analysis returning None below two snapshots
get_temporal_analysis_none_below_two(file) ==
    IF ~file.exists THEN PyNone
    ELSE LET analyses == file.content.analyses
         IN  IF Len(analyses) < 2 THEN PyNone
             ELSE PyDict(_compute_deltas(analyses[Len(analyses)],
                                         analyses[Len(analyses) - 1]))

\* get_temporal_analysis comparing the last snapshot with the oldest one
get_temporal_analysis_oldest_previous(file) ==
    IF ~file.exists THEN PyNone
    ELSE LET analyses == file.content.analyses
         IN  IF Len(analyses) < 2
             THEN PyDict([note |-> "Insufficient history (need 2+ analyses)",
                          analysis_count |-> Len(analyses)])
             ELSE PyDict(_compute_deltas(analyses[Len(analyses)], analyses[1]))

\* what get_temporal_analysis returns: PyNone, or PyDict(result)
get_temporal_analysis(file) ==
    IF ~file.exists THEN PyNone
    ELSE LET analyses == file.content.analyses
         IN  IF Len(analyses) < 2
             THEN PyDict([note |-> "Insufficient history (need 2+ analyses)",
                          analysis_count |-> Len(analyses)])
             ELSE PyDict(_compute_deltas(analyses[Len(analyses)],
                                         analyses[Len(analyses) - 1]))

(***************************************************************************)
(* Inputs: weight tables, raw analyzer outputs, sector and industry names.  *)
(* A weight table is a possible content of config/industry_weights.json,   *)
(* which __init__ loads with json.load and does not validate: a JSON       *)
(* object of JSON objects, with or without the '_default_weights' entry,   *)
(* whose entries may carry '_description' metadata next to the weights.    *)
(***************************************************************************)
Tickers == {"AAPL", "MSFT"}

OneEach ==
    [business_model |-> R(1, 1), financial_truth |-> R(1, 1),
     management |-> R(1, 1), market_structure |-> R(1, 1),
     competitive |-> R(1, 1), macro |-> R(1, 1), risk |-> R(1, 1)]

TechnologyEntry ==
    [_description |-> "growth and moat dominate",
     business_model |-> R(3, 2), financial_truth |-> R(1, 1),
     management |-> R(1, 1), market_structure |-> R(1, 2),
     competitive |-> R(3, 2), macro |-> R(1, 2), risk |-> R(1, 1)]

SoftwareEntry ==
    [business_model |-> R(4, 1), financial_truth |-> R(1, 2),
     competitive |-> R(2, 1)]

DescribedDefault ==
    [_description |-> "fallback", business_model |-> R(1, 1),
     financial_truth |-> R(1, 1), management |-> R(1, 1)]

\* an entry with weights calibrated to two decimals
BanksEntry == [business_model |-> R(234, 100), risk |-> R(273, 100)]

\* the JSON documents the engine may load
WeightTables ==
    {[_default_weights |-> OneEach, Technology |-> TechnologyEntry,
      Software |-> SoftwareEntry, Banks |-> BanksEntry],
     [_default_weights |-> DescribedDefault, Technology |-> TechnologyEntry,
      Software |-> SoftwareEntry, Banks |-> BanksEntry],
     [Technology |-> TechnologyEntry, Software |-> SoftwareEntry,
      Banks |-> BanksEntry]}

Sectors == {None, "Technology", "Energy"}
Industries == {None, "Software", "Oil & Gas", "_default_weights"}

\* raw analyzer outputs
Strong(s) == [score |-> s, red_flags |-> <<>>,
              green_flags |-> <<"STRONG_REVENUE_GROWTH", "EXCEPTIONAL_MARGINS",
                                "OCF_ACCELERATING">>]
Plain(s) == [score |-> s, red_flags |-> <<>>, green_flags |-> <<>>]
Flagged(s, red) == [score |-> s, red_flags |-> red, green_flags |-> <<>>]

Absent == [absent |-> TRUE]
IsAbsent(x) == "absent" \in DOMAIN x

\* the technical placeholder analyze() writes
TechnicalRaw ==
    [score |-> 0,
     note |-> "Run professional_screener.py first to get technical score"]

RawMenu(l) ==
    CASE l = "business_model" ->
            {Strong(8), Strong(10), Plain(7), Plain(5),
             Flagged(3, <<"DECLINING_REVENUE", "LOW_MARGINS">>)}
      [] l = "financial_truth" ->
            {Strong(7), Strong(6), Plain(5),
             Flagged(6, <<"HIGH_DEBT_TO_EBITDA">>),
             Flagged(7, <<"NEGATIVE_FREE_CASH_FLOW">>),
             Flagged(2, <<"HIGH_DEBT_TO_EBITDA", "NEGATIVE_FREE_CASH_FLOW">>),
             Flagged(4, <<"REVENUE_UP_CASH_DOWN", "LOW_INTEREST_COVERAGE">>)}
      [] l = "management" ->
            {Strong(9), Plain(6), Flagged(6, <<"INSIDER_HEAVY_SELLING">>)}
      [] l = "competitive" ->
            {Strong(8), Flagged(4, <<"SLOW_COLLECTIONS">>)}
      [] l = "technical" -> {TechnicalRaw}
      [] OTHER -> {Strong(10), Flagged(0, <<"WEAK_SIGNAL">>)}

LayerOrder ==
    <<"business_model", "financial_truth", "management", "market_structure",
      "competitive", "macro", "risk", "technical">>

\* normalized outputs a layer may hold when synthesize is called directly:
\* the first MaxVaried layers range over their whole menu, a missing layer
\* and an errored layer; the others over two outputs
LayerChoices(i) ==
    LET l == LayerOrder[i]
        whole == {normalize(r) : r \in RawMenu(l)}
                    \cup {create_empty("timeout"), Absent}
    IN  IF i <= MaxVaried THEN whole
        ELSE IF l = "technical" THEN {normalize(TechnicalRaw)}
        ELSE IF l = "competitive" THEN {normalize(r) : r \in RawMenu(l)}
        ELSE {normalize(Strong(10)),
              normalize(Flagged(0, <<"WEAK_SIGNAL", "WEAK_TREND">>))}

\* the dict holding the layers that are not absent
ToLayers(choice) ==
    [l \in {LayerOrder[i] : i \in {j \in 1..8 : ~IsAbsent(choice[j])}} |->
        choice[CHOOSE i \in 1..8 : LayerOrder[i] = l]]

\* the layers of main() in synthesis_engine.py
TestLayers ==
    [business_model |->
        normalize([score |-> 8, red_flags |-> <<>>,
                   green_flags |-> <<"STRONG_REVENUE_GROWTH",
                                     "EXCEPTIONAL_MARGINS">>]),
     financial_truth |->
        normalize([score |-> 7, red_flags |-> <<>>,
                   green_flags |-> <<"OCF_ACCELERATING",
                                     "DEBT_FREE_OR_NET_CASH">>]),
     management |->
        normalize([score |-> 6, red_flags |-> <<>>,
                   green_flags |-> <<"INSIDER_BUYING">>]),
     competitive |-> normalize(Plain(8))]

\* every canonical layer normalized from score 5 without flags
NeutralLayers == [l \in CanonicalLayers |-> normalize(Plain(5))]

\* a strong business layer and nothing else
MoatOnly == [business_model |-> normalize(Strong(9))]

\* the empty map, a map of create_empty outputs only, two partial maps, the
\* neutral map
SpecialMaps ==
    {EmptyDict,
     [l \in CanonicalLayers |-> create_empty("No data")],
     TestLayers,
     NeutralLayers,
     MoatOnly}

LayerMaps ==
    {ToLayers(<<a, b, c, d, e, f, g, h>>) :
        a \in LayerChoices(1), b \in LayerChoices(2), c \in LayerChoices(3),
        d \in LayerChoices(4), e \in LayerChoices(5), f \in LayerChoices(6),
        g \in LayerChoices(7), h \in LayerChoices(8)}
    \cup SpecialMaps

\* inputs of direct calls of the scorer: scores at the ends and the middle
\* of [0, 10] for the first MaxVaried canonical layers
ScoreChoices(i) ==
    IF i <= MaxVaried
    THEN {Absent, normalize(Plain(0)), normalize(Plain(5)), normalize(Plain(10))}
    ELSE {Absent, normalize(Plain(10))}

ScoreMaps ==
    {ToLayers(<<a, b, c, d, e, f, g, h>>) :
        a \in ScoreChoices(1), b \in ScoreChoices(2), c \in ScoreChoices(3),
        d \in ScoreChoices(4), e \in ScoreChoices(5), f \in ScoreChoices(6),
        g \in ScoreChoices(7), h \in {normalize(TechnicalRaw)}}

ZeroEach == [l \in CanonicalLayers |-> ToR(0)]

WeightMaps ==
    {OneEach, WithoutPrivate(TechnologyEntry), SoftwareEntry, DescribedDefault,
     EmptyDict, ZeroEach}

WeightedScores ==
    {ToR(0), R(3999, 100), ToR(40), R(5499, 100), ToR(55), R(6499, 100),
     ToR(65), R(6999, 100), ToR(70), ToR(100)}

BeliefStates ==
    {BeliefDict(bull, bear, distress) :
        bull \in {R(5, 100), R(3, 10), R(6, 10), R(61, 100), R(9, 10)},
        bear \in {R(2, 10), R(5, 10), R(51, 100), R(7, 10)},
        distress \in {R(5, 100), R(2, 10), R(21, 100), R(5, 10)}}

StructuralAnalyses ==
    {[disqualify |-> d, amplify |-> a,
      override_rules_triggered |->
         IF d THEN <<"NEGATIVE_FCF + HIGH_DEBT = Cannot service debt, distress imminent">>
         ELSE <<>>,
      pattern_matches |-> IF a THEN <<"STRONG_FUNDAMENTALS">> ELSE <<>>,
      cross_layer_signals |-> EmptyDict] : d \in BOOLEAN, a \in BOOLEAN}

SectorIndustryPairs ==
    {<<None, None>>, <<"Technology", "Software">>, <<"Technology", "Oil & Gas">>,
     <<"Financials", "Banks">>}

\* red flags of a raw output: one of the critical set, one of the high-risk
\* set, one of neither
RedAlphabet ==
    {"NEGATIVE_FREE_CASH_FLOW", "HIGH_DEBT_TO_EBITDA", "WEAK_SIGNAL"}

\* every list of at most MaxFlags red flags, in every order
FlagLists == UNION {[1..n -> RedAlphabet] : n \in 0..MaxFlags}

GreenList(n) == [i \in 1..n |-> "STRONG_REVENUE_GROWTH"]

\* raw analyzer outputs given to normalize directly: with a score of 0 or 7
\* and both flag lists, or with red flags only
RawOutputs ==
    {[score |-> s, red_flags |-> r, green_flags |-> GreenList(g)] :
        s \in {0, 7}, r \in FlagLists, g \in 0..MaxFlags}
    \cup {[red_flags |-> r] : r \in FlagLists}

(***************************************************************************)
(* State.                                                                  *)
(***************************************************************************)
NoCall == [fn |-> "none"]

\* no save_analysis call in progress
Savers == {1, 2}
NoSaves == [p \in Savers |-> [pc |-> "idle"]]

\* SynthesisEngine.__init__
EngineInit ==
    /\ industry_weights \in WeightTables
    /\ default_weights = LoadDefault(industry_weights)

\* no analyze() in progress
NotAnalyzing ==
    /\ pc = "idle"
    /\ analysis = EmptyDict
    /\ sector = None
    /\ industry = None
    /\ normalized_layers = EmptyDict
    /\ synthesis = EmptyDict
    /\ exc = None
    /\ raised = None

pipeline == <<history, pc, analysis, sector, industry, normalized_layers,
              synthesis, exc, raised>>
engine == <<industry_weights, default_weights>>

(***************************************************************************)
(* Direct calls of the engine's methods on a freshly constructed engine.   *)
(***************************************************************************)
InitEngine ==
    /\ EngineInit
    /\ history = [t \in Tickers |-> NoFile]
    /\ NotAnalyzing
    /\ call = NoCall
    /\ saves = NoSaves

CallGetWeights ==
    /\ call = NoCall
    /\ \E sec \in Sectors, ind \in Industries :
          call' = [fn |-> "_get_weights", sector |-> sec, industry |-> ind,
                   result |-> _get_weights(sec, ind)]
    /\ UNCHANGED <<engine, pipeline, saves>>

CallCalculateWeightedScore ==
    /\ call = NoCall
    /\ \E layers \in ScoreMaps, weights \in WeightMaps :
          call' = [fn |-> "_calculate_weighted_score", layers |-> layers,
                   weights |-> weights,
                   result |-> _calculate_weighted_score(layers, weights)]
    /\ UNCHANGED <<engine, pipeline, saves>>

CallComputeBeliefState ==
    /\ call = NoCall
    /\ \E layers \in LayerMaps,
          sa \in {x \in StructuralAnalyses : ~x.amplify} :
          call' = [fn |-> "_compute_belief_state", layers |-> layers,
                   structural_analysis |-> sa,
                   result |-> _compute_belief_state(layers, sa)]
    /\ UNCHANGED <<engine, pipeline, saves>>

CallDetermineAction ==
    /\ call = NoCall
    /\ \E ws \in WeightedScores, sa \in StructuralAnalyses,
          bs \in BeliefStates :
          call' = [fn |-> "_determine_action", weighted_score |-> ws,
                   structural_analysis |-> sa, belief_state |-> bs,
                   result |-> _determine_action(ws, sa, bs, EmptyDict)]
    /\ UNCHANGED <<engine, pipeline, saves>>

CallAnalyzeStructuralPatterns ==
    /\ call = NoCall
    /\ \E layers \in LayerMaps :
          call' = [fn |-> "_analyze_structural_patterns", layers |-> layers,
                   result |-> _analyze_structural_patterns(layers)]
    /\ UNCHANGED <<engine, pipeline, saves>>

CallSynthesize ==
    /\ call = NoCall
    /\ \E layers \in LayerMaps, si \in SectorIndustryPairs :
          call' = [fn |-> "synthesize", layers |-> layers, sector |-> si[1],
                   industry |-> si[2],
                   result |-> synthesize(layers, "AAPL", si[1], si[2])]
    /\ UNCHANGED <<engine, pipeline, saves>>

CallNormalize ==
    /\ call = NoCall
    /\ \E raw_output \in RawOutputs :
          call' = [fn |-> "normalize", raw_output |-> raw_output,
                   result |-> normalize(raw_output)]
    /\ UNCHANGED <<engine, pipeline, saves>>

NextEngine ==
    \/ CallNormalize
    \/ CallGetWeights
    \/ CallCalculateWeightedScore
    \/ CallAnalyzeStructuralPatterns
    \/ CallComputeBeliefState
    \/ CallDetermineAction
    \/ CallSynthesize

SpecEngine == InitEngine /\ [][NextEngine]_vars

(***************************************************************************)
(* framework.py: MarketTruthFramework.analyze, one call per run of main(). *)
(* pc names the statement analyze is about to execute.                     *)
(***************************************************************************)
AnalyzerOrder ==
    <<"business_model", "financial_truth", "management", "market_structure",
      "competitive", "macro", "risk">>

\* the dict an analyzer returns from its own except clause
FailedReturn ==
    [score |-> 0, error |-> "No cash flow data available",
     red_flags |-> <<"ANALYSIS_FAILED">>]

\* what the call of an analyzer may do
Returns(raw) == [kind |-> "return", value |-> PyDict(raw)]
Raises(msg) == [kind |-> "raise", error |-> msg]

AnalyzerOutcomes(l) ==
    CASE l = "business_model" ->
            {Returns(Strong(8)),
             Returns(Flagged(3, <<"DECLINING_REVENUE", "LOW_MARGINS">>)),
             Raises("HTTP 429")}
      [] l = "financial_truth" ->
            {Returns(Flagged(2, <<"HIGH_DEBT_TO_EBITDA",
                                  "NEGATIVE_FREE_CASH_FLOW">>)),
             Returns(FailedReturn), Raises("HTTP 429")}
      [] l = "management" ->
            {Returns(Flagged(6, <<"INSIDER_HEAVY_SELLING">>)),
             Returns(FailedReturn)}
      [] l = "market_structure" -> {Returns(Plain(5)), Raises("HTTP 429")}
      [] l = "competitive" -> {Returns(Strong(8)), Returns(FailedReturn)}
      [] l = "macro" -> {Returns(Strong(10)), Raises("timeout")}
      [] OTHER -> {Returns(Plain(4)), Raises("KeyError: 'score'")}

\* (sector, industry) of the profile the data provider returns
CompanyInfos == {<<"Technology", "Software">>}

\* the layer dict a failed analyzer call leaves in analysis['layers']
ErrorLayer(l, msg) ==
    PyDict([score |-> IF l = "risk" THEN 5 ELSE 0, error |-> msg])

\* dict[k] = v
Put(d, k, v) == [j \in DOMAIN d \cup {k} |-> IF j = k THEN v ELSE d[j]]

\* one iteration of "Normalize all layers to standard format", with error
\* dicts sent through normalize like any other dict
NormalizeLayer_errors_normalized(layer_data) ==
    IF IsDict(layer_data) THEN normalize(layer_data.val)
    ELSE create_empty("Invalid layer output")

\* one iteration of "Normalize all layers to standard format"
NormalizeLayer(layer_data) ==
    IF IsDict(layer_data) /\ "error" \notin DOMAIN layer_data.val
    THEN normalize(layer_data.val)
    ELSE IF IsDict(layer_data) /\ "error" \in DOMAIN layer_data.val
    THEN create_empty(Get(layer_data.val, "error", "Unknown error"))
    ELSE create_empty("Invalid layer output")

\* an earlier run of analyze, whose snapshot may already be on disk
PriorLayers ==
    [technical |-> PyDict(TechnicalRaw),
     business_model |-> PyDict(Plain(7)),
     financial_truth |-> PyDict(Flagged(6, <<"SLOW_COLLECTIONS">>)),
     management |-> ErrorLayer("management", "HTTP 429"),
     market_structure |-> PyDict(Plain(5)),
     competitive |-> PyDict(Strong(8)),
     macro |-> PyDict(Plain(5)),
     risk |-> PyDict(Plain(5))]

PriorSnapshot(ticker) ==
    Snapshot([ticker |-> ticker, layers |-> PriorLayers],
             synthesize([l \in DOMAIN PriorLayers |->
                            NormalizeLayer(PriorLayers[l])],
                        ticker, None, None))

\* the history files that may exist when analyze starts
InitialFiles(ticker) ==
    {NoFile} \cup
    {FileOf([ticker |-> ticker,
             analyses |-> [i \in 1..n |-> PriorSnapshot(ticker)]]) :
        n \in 1..MaxHistory}

\* a history file cut short by a failed write
Corrupt == [exists |-> TRUE, corrupt |-> TRUE]

Init ==
    /\ EngineInit
    /\ history \in {h \in [Tickers -> UNION {InitialFiles(t) : t \in Tickers}] :
                      \A t \in Tickers : h[t] \in InitialFiles(t)}
    /\ NotAnalyzing
    /\ call = NoCall
    /\ saves = NoSaves

\* lines 95-110: the analysis dict with the technical placeholder
Start ==
    /\ pc = "idle"
    /\ \E ticker \in Tickers :
          analysis' = [ticker |-> ticker,
                       layers |-> [technical |-> PyDict(TechnicalRaw)]]
    /\ pc' = AnalyzerOrder[1]
    /\ UNCHANGED <<engine, history, sector, industry, normalized_layers,
                   synthesis, exc, raised, call, saves>>

\* layers 2 to 8: the try/except around the call of one analyzer
AnalyzeLayer(i) ==
    LET l == AnalyzerOrder[i]
    IN  /\ pc = l
        /\ \E o \in AnalyzerOutcomes(l) :
              analysis' =
                 [analysis EXCEPT
                    !.layers = Put(@, l, IF o.kind = "return" THEN o.value
                                         ELSE ErrorLayer(l, o.error))]
        /\ pc' = IF i < Len(AnalyzerOrder) THEN AnalyzerOrder[i + 1]
                 ELSE "company_info"
        /\ UNCHANGED <<engine, history, sector, industry, normalized_layers,
                       synthesis, exc, raised, call, saves>>

\* "Get company info for industry weighting"
CompanyInfo ==
    /\ pc = "company_info"
    /\ \/ \E si \in CompanyInfos : sector' = si[1] /\ industry' = si[2]
       \/ sector' = None /\ industry' = None
    /\ pc' = "normalize"
    /\ UNCHANGED <<engine, history, analysis, normalized_layers, synthesis,
                   exc, raised, call, saves>>

\* "Normalize all layers to standard format"
NormalizeLayers ==
    /\ pc = "normalize"
    /\ normalized_layers' =
          [l \in DOMAIN analysis.layers |-> NormalizeLayer(analysis.layers[l])]
    /\ analysis' = Put(analysis, "layers_normalized", normalized_layers')
    /\ pc' = "synthesize"
    /\ UNCHANGED <<engine, history, sector, industry, synthesis, exc, raised,
                   call, saves>>

\* "Layer 9: Synthesis"
Synthesize ==
    /\ pc = "synthesize"
    /\ synthesis' = synthesize(normalized_layers, analysis.ticker, sector,
                               industry)
    /\ analysis' = Put(analysis, "synthesis", synthesis')
    /\ pc' = "save_analysis"
    /\ UNCHANGED <<engine, history, sector, industry, normalized_layers, exc,
                   raised, call, saves>>

\* self.temporal_engine.save_analysis(ticker, analysis, synthesis): it
\* writes the file, or raises while reading, or raises while writing
SaveAnalysis ==
    /\ pc = "save_analysis"
    /\ \/ /\ history' = [history EXCEPT ![analysis.ticker] =
                            save_analysis(@, analysis.ticker, analysis,
                                          synthesis)]
          /\ pc' = "get_temporal_analysis"
          /\ exc' = exc
       \/ /\ history' = history
          /\ pc' = "except"
          /\ exc' = "PermissionError"
       \/ /\ history' = [history EXCEPT ![analysis.ticker] = Corrupt]
          /\ pc' = "except"
          /\ exc' = "OSError: No space left on device"
    /\ UNCHANGED <<engine, analysis, sector, industry, normalized_layers,
                   synthesis, raised, call, saves>>

\* temporal = self.temporal_engine.get_temporal_analysis(ticker);
\* if temporal: analysis['temporal'] = temporal
GetTemporalAnalysis ==
    /\ pc = "get_temporal_analysis"
    /\ \/ LET temporal == get_temporal_analysis(history[analysis.ticker])
          IN  /\ analysis' = IF IsDict(temporal) /\ DOMAIN temporal.val # {}
                             THEN Put(analysis, "temporal", temporal)
                             ELSE analysis
              /\ pc' = "return"
              /\ exc' = exc
       \/ /\ analysis' = analysis
          /\ pc' = "except"
          /\ exc' = "JSONDecodeError"
    /\ UNCHANGED <<engine, history, sector, industry, normalized_layers,
                   synthesis, raised, call, saves>>

\* the handler with the failure raised again to the caller
ExceptTemporal_reraises ==
    /\ pc = "except"
    /\ raised' = exc
    /\ pc' = "done"
    /\ UNCHANGED <<engine, history, analysis, sector, industry,
                   normalized_layers, synthesis, exc, call, saves>>

\* except Exception as e: analysis['temporal'] = None
ExceptTemporal ==
    /\ pc = "except"
    /\ analysis' = Put(analysis, "temporal", PyNone)
    /\ pc' = "return"
    /\ UNCHANGED <<engine, history, sector, industry, normalized_layers,
                   synthesis, exc, raised, call, saves>>

\* return analysis
Return ==
    /\ pc = "return"
    /\ pc' = "done"
    /\ UNCHANGED <<engine, history, analysis, sector, industry,
                   normalized_layers, synthesis, exc, raised, call, saves>>

Next ==
    \/ Start
    \/ \E i \in 1..Len(AnalyzerOrder) : AnalyzeLayer(i)
    \/ CompanyInfo
    \/ NormalizeLayers
    \/ Synthesize
    \/ SaveAnalysis
    \/ GetTemporalAnalysis
    \/ ExceptTemporal
    \/ Return

Spec == Init /\ [][Next]_vars

(***************************************************************************)
(* temporal_engine.py: calls of save_analysis and get_temporal_analysis,   *)
(* one after the other, on the history files of the cache directory.       *)
(***************************************************************************)
\* longest history a file grows to
MaxSnapshots == 3

\* the raw layers of a later run of analyze
LaterLayers ==
    [technical |-> PyDict(TechnicalRaw),
     business_model |-> PyDict(Strong(8)),
     financial_truth |->
        PyDict(Flagged(2, <<"HIGH_DEBT_TO_EBITDA", "NEGATIVE_FREE_CASH_FLOW">>)),
     management |-> PyDict(Flagged(6, <<"INSIDER_HEAVY_SELLING">>)),
     market_structure |-> ErrorLayer("market_structure", "HTTP 429"),
     competitive |-> PyDict(Strong(8)),
     macro |-> PyDict(Strong(10)),
     risk |-> PyDict(Plain(4))]

\* the arguments analyze passes to save_analysis: the analysis dict, whose
\* 'layers' are the analyzers' raw outputs, and the synthesis result
AnalyzeArgs(ticker, layers) ==
    LET normalized == [l \in DOMAIN layers |-> NormalizeLayer(layers[l])]
        synthesis_ == synthesize(normalized, ticker, None, None)
    IN  [analysis |-> [ticker |-> ticker, layers |-> layers,
                       layers_normalized |-> normalized,
                       synthesis |-> synthesis_],
         synthesis |-> synthesis_]

\* arguments whose 'layers' are LayerOutput dicts
NormalizedArgs(ticker, layers) ==
    LET normalized == [l \in DOMAIN layers |-> NormalizeLayer(layers[l])]
        synthesis_ == synthesize(normalized, ticker, None, None)
    IN  [analysis |-> [ticker |-> ticker,
                       layers |-> [l \in DOMAIN layers |->
                                      PyDict(normalized[l])]],
         synthesis |-> synthesis_]

SaveArgs(ticker) ==
    {AnalyzeArgs(ticker, LaterLayers), NormalizedArgs(ticker, LaterLayers)}

IsCorrupt(file) == "corrupt" \in DOMAIN file

\* the snapshots of a history file, none when there is no file
Analyses(file) == IF file.exists THEN file.content.analyses ELSE <<>>

\* number of snapshots a readable history file holds
SnapshotCount(file) == IF file.exists THEN Len(file.content.analyses) ELSE 0

\* a call that raised
Raised(error) == [type |-> "raise", error |-> error]

\* the synthesis results saved come from an engine loaded from the first
\* weight table
InitTemporal ==
    /\ EngineInit
    /\ "_default_weights" \in DOMAIN industry_weights
    /\ default_weights = OneEach
    /\ history \in {h \in [Tickers -> UNION {InitialFiles(t) : t \in Tickers}] :
                      \A t \in Tickers : h[t] \in InitialFiles(t)}
    /\ NotAnalyzing
    /\ call = NoCall
    /\ saves = NoSaves

\* save_analysis(ticker, analysis, synthesis): json.load raises on a file
\* that is not JSON; otherwise the file is rewritten with one more snapshot,
\* or the write fails after open(history_file, 'w') has truncated the file
CallSaveAnalysis ==
    \E ticker \in Tickers :
       \E a \in SaveArgs(ticker) :
          /\ IF IsCorrupt(history[ticker]) THEN TRUE
             ELSE SnapshotCount(history[ticker]) < MaxSnapshots
          /\ \/ /\ IsCorrupt(history[ticker])
                /\ history' = history
                /\ call' = [fn |-> "save_analysis", ticker |-> ticker,
                            snapshot |-> Snapshot(a.analysis, a.synthesis),
                            result |-> Raised("JSONDecodeError")]
             \/ /\ ~IsCorrupt(history[ticker])
                /\ history' = [history EXCEPT ![ticker] =
                                  save_analysis(@, ticker, a.analysis,
                                                a.synthesis)]
                /\ call' = [fn |-> "save_analysis", ticker |-> ticker,
                            snapshot |-> Snapshot(a.analysis, a.synthesis),
                            result |-> PyNone]
             \/ /\ ~IsCorrupt(history[ticker])
                /\ history' = [history EXCEPT ![ticker] = Corrupt]
                /\ call' = [fn |-> "save_analysis", ticker |-> ticker,
                            snapshot |-> Snapshot(a.analysis, a.synthesis),
                            result |->
                               Raised("OSError: No space left on device")]
          /\ UNCHANGED <<engine, pc, analysis, sector, industry,
                         normalized_layers, synthesis, exc, raised, saves>>

\* get_temporal_analysis(ticker)
CallGetTemporalAnalysis ==
    /\ \E ticker \in Tickers :
          call' = [fn |-> "get_temporal_analysis", ticker |-> ticker,
                   result |->
                      IF IsCorrupt(history[ticker])
                      THEN Raised("JSONDecodeError")
                      ELSE get_temporal_analysis(history[ticker])]
    /\ UNCHANGED <<engine, pipeline, saves>>

\* the layers of a run after the balance sheet was repaired
RecoveredLayers ==
    [technical |-> PyDict(TechnicalRaw),
     business_model |-> PyDict(Strong(10)),
     financial_truth |-> PyDict(Flagged(7, <<"HIGH_DEBT_TO_EBITDA">>)),
     management |-> PyDict(Strong(9)),
     market_structure |-> PyDict(Plain(5)),
     competitive |-> PyDict(Strong(8)),
     macro |-> PyDict(Strong(10)),
     risk |-> PyDict(Flagged(5, <<"WEAK_SIGNAL">>))]

\* a dict of layers without one of them
Without(layers, name) == [l \in DOMAIN layers \ {name} |-> layers[l]]

\* arguments of save_analysis: what analyze passes, and LayerOutput dicts,
\* once without the management layer
DeltaArgs ==
    {AnalyzeArgs("AAPL", LaterLayers),
     NormalizedArgs("AAPL", LaterLayers),
     NormalizedArgs("AAPL", RecoveredLayers),
     NormalizedArgs("AAPL", Without(LaterLayers, "management"))}

\* snapshots _compute_deltas is called on directly: the ones save_analysis
\* stores for these arguments, and the one found on disk
SnapshotMenu ==
    {PriorSnapshot("AAPL")}
    \cup {Snapshot(a.analysis, a.synthesis) : a \in DeltaArgs}

\* _compute_deltas(latest, previous, full_history) called on two snapshots;
\* it reads nothing but its arguments, so the calls made before any other
\* stand for the calls made at any time
CallComputeDeltas ==
    /\ call = NoCall
    /\ \E menu \in {SnapshotMenu} :
          \E latest \in menu, previous \in menu :
             call' = [fn |-> "_compute_deltas", latest |-> latest,
                      previous |-> previous,
                      result |-> _compute_deltas(latest, previous)]
    /\ UNCHANGED <<engine, pipeline, saves>>

NextTemporal ==
    \/ CallSaveAnalysis
    \/ CallGetTemporalAnalysis
    \/ CallComputeDeltas

SpecTemporal == InitTemporal /\ [][NextTemporal]_vars

(***************************************************************************)
(* temporal_engine.py: two save_analysis calls running at the same time,   *)
(* as two analyses started side by side do. save_analysis takes no lock;   *)
(* saves[p] holds the position of call p and its local variables, and a    *)
(* call advances by its three statements: load, append, write.             *)
(***************************************************************************)
InitConcurrent == InitTemporal

\* lines 60-71: history_file, "Load existing history"
SaveLoad(p) ==
    /\ saves[p].pc = "idle"
    /\ \E ticker \in Tickers :
          \E a \in SaveArgs(ticker) :
             saves' = [saves EXCEPT ![p] =
                          [pc |-> "append", ticker |-> ticker,
                           analysis |-> a.analysis, synthesis |-> a.synthesis,
                           history |-> LoadHistory(history[ticker], ticker)]]
    /\ UNCHANGED <<engine, pipeline, call>>

\* lines 73-96: "Create snapshot", "Append to history"
SaveAppend(p) ==
    /\ saves[p].pc = "append"
    /\ saves' = [saves EXCEPT
                    ![p].pc = "write",
                    ![p].history.analyses =
                        Append(@, Snapshot(saves[p].analysis,
                                           saves[p].synthesis))]
    /\ UNCHANGED <<engine, pipeline, call>>

\* lines 98-102: "Save"
SaveWrite(p) ==
    /\ saves[p].pc = "write"
    /\ history' = [history EXCEPT ![saves[p].ticker] =
                      FileOf(saves[p].history)]
    /\ saves' = [saves EXCEPT ![p].pc = "done"]
    /\ UNCHANGED <<engine, pc, analysis, sector, industry, normalized_layers,
                   synthesis, exc, raised, call>>

NextConcurrent ==
    \E p \in Savers :
       \/ SaveLoad(p)
       \/ SaveAppend(p)
       \/ SaveWrite(p)

SpecConcurrent == InitConcurrent /\ [][NextConcurrent]_vars

(***************************************************************************)
(* Properties of the synthesis engine (SpecEngine).                        *)
(***************************************************************************)
Convictions == {"HIGH", "MEDIUM", "LOW", "AVOID", "SHORT"}
Actions ==
    {"BUY_HIGH_CONVICTION", "BUY_MEDIUM", "TRADE_ONLY", "SPECULATION_ONLY",
     "SHORT_CANDIDATE", "DO_NOT_TRADE"}
SynthesisKeys ==
    {"ticker", "weighted_score", "raw_score", "conviction", "action",
     "reasoning", "weights_used", "score_breakdown", "structural_analysis",
     "belief_state", "disqualified", "override_rules"}

\* C1: whenever _determine_action is given a structural analysis with
\* disqualify true, it returns conviction AVOID and action DO_NOT_TRADE,
\* whatever the weighted score and the belief state are.
C1_DisqualifyDominates ==
    (call.fn = "_determine_action" /\ call.structural_analysis.disqualify)
        => (call.result[1] = "AVOID" /\ call.result[2] = "DO_NOT_TRADE")

\* a disqualified call whose score and distress would otherwise decide
C1_Witness ==
    /\ call.fn = "_determine_action"
    /\ call.structural_analysis.disqualify
    /\ RGt(call.belief_state.distress_prob, R(2, 10))
    /\ RGe(call.weighted_score, ToR(70))
    /\ call.result[2] = "DO_NOT_TRADE"

\* C2: the four probabilities returned by _compute_belief_state add up to 1.
C2_ProbabilityClosure ==
    call.fn = "_compute_belief_state"
        => RAdd(RAdd(RAdd(call.result.bull_prob, call.result.bear_prob),
                     call.result.distress_prob),
                call.result.neutral_prob) = ToR(1)

\* a call whose three probabilities were divided by their sum
C2_Witness ==
    /\ call.fn = "_compute_belief_state"
    /\ ~call.structural_analysis.disqualify
    /\ call.result.neutral_prob = ToR(0)
    /\ RGt(call.result.bull_prob, R(6, 10))

\* the weights _calculate_weighted_score reads are all positive
PositiveWeights(weights) ==
    \A l \in CanonicalLayers \cap DOMAIN weights : RGt(weights[l], ToR(0))

PublicPart(entry) == [k \in DOMAIN entry \ UnderscoreKeys |-> entry[k]]

\* C4: _get_weights returns the entry of the industry when the industry is a
\* key of the table, otherwise the entry of the sector when the sector is a
\* key, otherwise the default weights; with sector None and industry None
\* that is exactly the default weight map.
C4_WeightFallback ==
    call.fn = "_get_weights" =>
        LET keys == DOMAIN industry_weights
            default == IF "_default_weights" \in keys
                       THEN industry_weights["_default_weights"]
                       ELSE EmptyDict
        IN  /\ call.industry \in keys
                => call.result = PublicPart(industry_weights[call.industry])
            /\ (call.industry \notin keys /\ call.sector \in keys)
                => call.result = PublicPart(industry_weights[call.sector])
            /\ (call.industry \notin keys /\ call.sector \notin keys)
                => call.result = default

\* an unknown industry falling back to a known sector
C4_Witness ==
    /\ call.fn = "_get_weights"
    /\ call.industry = "Oil & Gas"
    /\ call.sector = "Technology"
    /\ call.result = PublicPart(TechnologyEntry)
    /\ call.result # default_weights

\* C5: the mapping returned by _get_weights has no key that begins with an
\* underscore, on any of the three resolution paths.
C5_NoPrivateKeys ==
    call.fn = "_get_weights"
        => \A k \in DOMAIN call.result : ~StartsWithUnderscore(k)

\* C6 as stated: the weights map synthesize uses is never empty.
C6_WeightsNonEmpty ==
    call.fn = "synthesize" => DOMAIN call.result.weights_used # {}

\* the table has a non-empty default entry and every entry has a key that
\* does not begin with an underscore
TableComplete ==
    /\ "_default_weights" \in DOMAIN industry_weights
    /\ DOMAIN industry_weights["_default_weights"] # {}
    /\ \A k \in DOMAIN industry_weights \ {"_default_weights"} :
          DOMAIN industry_weights[k] \ UnderscoreKeys # {}

\* C6 amended: the weights map synthesize uses is non-empty when the table
\* has a non-empty default entry and every other entry has a key without a
\* leading underscore; when the table has no default entry and neither the
\* industry nor the sector is a key, the map is empty and every layer is
\* scored with weight 1.0.
C6_WeightsNonEmptyWithDefault ==
    call.fn = "synthesize" =>
        /\ TableComplete => DOMAIN call.result.weights_used # {}
        /\ ( /\ "_default_weights" \notin DOMAIN industry_weights
             /\ call.industry \notin DOMAIN industry_weights
             /\ call.sector \notin DOMAIN industry_weights )
            => /\ call.result.weights_used = EmptyDict
               /\ \A l \in DOMAIN call.result.score_breakdown :
                     call.result.score_breakdown[l].weight = ToR(1)

\* synthesize falling back to a default entry that exists
C6_Witness ==
    /\ call.fn = "synthesize"
    /\ TableComplete
    /\ call.sector = None
    /\ call.industry = None
    /\ call.result.weights_used = industry_weights["_default_weights"]
    /\ DOMAIN call.result.score_breakdown # {}

\* C7: synthesize returns a complete result for every map of layer outputs,
\* with a conviction and an action of the fixed vocabularies.
C7_SynthesizeTotal ==
    call.fn = "synthesize" =>
        /\ DOMAIN call.result = SynthesisKeys
        /\ call.result.conviction \in Convictions
        /\ call.result.action \in Actions

\* synthesize on the empty map of layers
C7_Witness ==
    /\ call.fn = "synthesize"
    /\ call.layers = EmptyDict
    /\ call.result.conviction = "AVOID"
    /\ call.result.action = "SPECULATION_ONLY"

DecisionTable(ws, sa, bs) ==
    CASE sa.disqualify -> <<"AVOID", "DO_NOT_TRADE">>
      [] ~sa.disqualify /\ RGt(bs.distress_prob, R(20, 100)) ->
            <<"SHORT", "SHORT_CANDIDATE">>
      [] /\ ~sa.disqualify /\ ~RGt(bs.distress_prob, R(20, 100))
         /\ RGt(bs.bear_prob, R(50, 100)) -> <<"SHORT", "SHORT_CANDIDATE">>
      [] /\ ~sa.disqualify /\ ~RGt(bs.distress_prob, R(20, 100))
         /\ ~RGt(bs.bear_prob, R(50, 100))
         /\ RGt(bs.bull_prob, R(60, 100)) /\ RGe(ws, ToR(70)) ->
            <<"HIGH", "BUY_HIGH_CONVICTION">>
      [] /\ ~sa.disqualify /\ ~RGt(bs.distress_prob, R(20, 100))
         /\ ~RGt(bs.bear_prob, R(50, 100))
         /\ ~(RGt(bs.bull_prob, R(60, 100)) /\ RGe(ws, ToR(70))) ->
            IF RGe(ws, ToR(65)) THEN <<"MEDIUM", "BUY_MEDIUM">>
            ELSE IF RGe(ws, ToR(55)) THEN <<"LOW", "TRADE_ONLY">>
            ELSE IF RGe(ws, ToR(40)) THEN <<"AVOID", "SPECULATION_ONLY">>
            ELSE <<"AVOID", "DO_NOT_TRADE">>

Times(cond, f) == IF cond THEN f ELSE ToR(1)

\* number of layers of the map with trajectory t
CountTrajectory(layers, t) ==
    Cardinality({l \in DOMAIN layers : layers[l].trajectory = t})

FinancialRiskLevel(layers) ==
    IF "financial_truth" \in DOMAIN layers
    THEN layers["financial_truth"].risk_level ELSE None

BusinessScore(layers) ==
    IF "business_model" \in DOMAIN layers
    THEN layers["business_model"].score ELSE 5

\* distress after the financial-risk and deteriorating-count multipliers
DistressUpdated(layers) ==
    RMul(RMul(R(5, 100),
              IF FinancialRiskLevel(layers) = "critical" THEN ToR(5)
              ELSE Times(FinancialRiskLevel(layers) = "high", ToR(3))),
         Times(CountTrajectory(layers, "deteriorating") >= 3, R(15, 10)))

\* bull after the business-score and improving-count multipliers
BullUpdated(layers) ==
    RMul(RMul(R(30, 100),
              IF BusinessScore(layers) >= 8 THEN ToR(2)
              ELSE Times(BusinessScore(layers) <= 3, R(3, 10))),
         Times(CountTrajectory(layers, "improving") >= 3, R(15, 10)))

\* bear after the business-score and deteriorating-count multipliers
BearUpdated(layers) ==
    RMul(RMul(R(20, 100), Times(BusinessScore(layers) <= 3, ToR(2))),
         Times(CountTrajectory(layers, "deteriorating") >= 3, ToR(2)))

\* the three values divided by their sum only if it exceeds 1, and the rest
Closed(bull, bear, distress) ==
    LET total == RAdd(bull, RAdd(bear, distress))
        b == IF RGt(total, ToR(1)) THEN RDiv(bull, total) ELSE bull
        r == IF RGt(total, ToR(1)) THEN RDiv(bear, total) ELSE bear
        d == IF RGt(total, ToR(1)) THEN RDiv(distress, total) ELSE distress
    IN  [bull_prob |-> b, bear_prob |-> r, distress_prob |-> d,
         neutral_prob |-> RSub(ToR(1), RAdd(b, RAdd(r, d)))]

\* C17: without disqualification, _compute_belief_state returns the priors
\* 0.30, 0.20, 0.05 multiplied by: distress x5 for financial risk critical,
\* else x3 for high; bull x2 for business score >= 8, else bull x0.3 and
\* bear x2 for business score <= 3; bull x1.5 for at least 3 improving
\* layers; bear x2 and distress x1.5 for at least 3 deteriorating layers;
\* divided by their sum only if it exceeds 1; neutral is the rest to 1.
C17_BeliefUpdates ==
    (call.fn = "_compute_belief_state" /\ ~call.structural_analysis.disqualify)
        => call.result = Closed(BullUpdated(call.layers),
                                BearUpdated(call.layers),
                                DistressUpdated(call.layers))

\* a weak business with critical financials and three deteriorating
\* layers: every bear and distress multiplier applies and the sum is
\* divided
C17_Witness ==
    /\ call.fn = "_compute_belief_state"
    /\ ~call.structural_analysis.disqualify
    /\ FinancialRiskLevel(call.layers) = "critical"
    /\ BusinessScore(call.layers) <= 3
    /\ CountTrajectory(call.layers, "deteriorating") >= 3
    /\ CountTrajectory(call.layers, "improving") >= 3
    /\ call.result.neutral_prob = ToR(0)
    /\ call.result.bear_prob = RDiv(R(80, 100), R(1310, 1000))

\* C18: with disqualification, the forcing step discards the updates of
\* bull and bear: before normalization bull = 0.05, bear = 0.70 and
\* distress = min(2*d, 0.50), d being distress after the financial-risk and
\* deteriorating-count multipliers; the result does not depend on the
\* business score or on the number of improving layers.
C18_DisqualifyForcesLast ==
    (call.fn = "_compute_belief_state" /\ call.structural_analysis.disqualify)
        => call.result
              = Closed(R(5, 100), R(70, 100),
                       RMin(RMul(ToR(2), DistressUpdated(call.layers)),
                            R(50, 100)))

\* a disqualified call with a strong business and three improving layers,
\* whose distress 0.15 is doubled without reaching the cap
C18_Witness ==
    /\ call.fn = "_compute_belief_state"
    /\ call.structural_analysis.disqualify
    /\ BusinessScore(call.layers) >= 8
    /\ CountTrajectory(call.layers, "improving") >= 3
    /\ FinancialRiskLevel(call.layers) = "high"
    /\ call.result.bull_prob = RDiv(R(5, 100), R(105, 100))
    /\ call.result.distress_prob = RDiv(R(30, 100), R(105, 100))

\* the layer l of the map has the risk flag
HasRiskFlag(layers, l, flag) ==
    /\ l \in DOMAIN layers
    /\ \E i \in 1..Len(layers[l].risk_flags) : layers[l].risk_flags[i] = flag

\* a field of layer l, or the given value when the map has no layer l
FieldOr(layers, l, field, default) ==
    IF l \in DOMAIN layers THEN layers[l][field] ELSE default

\* which of rules 1 to 5 hold
RulesHolding(layers) ==
    << /\ FieldOr(layers, "financial_truth", "risk_level", None)
             \in {"critical", "high"}
       /\ HasRiskFlag(layers, "financial_truth", "NEGATIVE_FREE_CASH_FLOW")
       /\ HasRiskFlag(layers, "management", "INSIDER_HEAVY_SELLING"),
       /\ HasRiskFlag(layers, "business_model", "DECLINING_REVENUE")
       /\ HasRiskFlag(layers, "financial_truth", "REVENUE_UP_CASH_DOWN"),
       /\ HasRiskFlag(layers, "financial_truth", "NEGATIVE_FREE_CASH_FLOW")
       /\ HasRiskFlag(layers, "financial_truth", "HIGH_DEBT_TO_EBITDA"),
       /\ HasRiskFlag(layers, "financial_truth", "LOW_INTEREST_COVERAGE")
       /\ FieldOr(layers, "financial_truth", "trajectory", None)
             = "deteriorating",
       /\ FieldOr(layers, "competitive", "risk_level", None)
             \in {"high", "critical"}
       /\ HasRiskFlag(layers, "business_model", "LOW_MARGINS") >>

RuleMessages ==
    <<"FINANCIAL_DISTRESS + INSIDER_SELLING = Management bailing before bankruptcy",
      "DECLINING_REVENUE + CASH_FLOW_DETERIORATION = Business dying",
      "NEGATIVE_FCF + HIGH_DEBT = Cannot service debt, distress imminent",
      "LOW_COVERAGE + DETERIORATING = Death spiral beginning",
      "COMPETITIVE_PRESSURE + LOW_MARGINS = No moat, commodity pricing">>

\* the messages of the rules that hold, in rule order from rule i on
RECURSIVE MessagesFrom(_, _)
MessagesFrom(i, holding) ==
    IF i > Len(RuleMessages) THEN <<>>
    ELSE (IF holding[i] THEN <<RuleMessages[i]>> ELSE <<>>)
            \o MessagesFrom(i + 1, holding)

StrongFundamentals(layers) ==
    /\ FieldOr(layers, "business_model", "score", 0) >= 7
    /\ FieldOr(layers, "financial_truth", "score", 0) >= 7

BroadImprovement(layers) ==
    /\ CountTrajectory(layers, "improving") >= 3
    /\ CountTrajectory(layers, "deteriorating") = 0

CompounderProfile(layers) ==
    /\ FieldOr(layers, "business_model", "score", 0) >= 8
    /\ FieldOr(layers, "financial_truth", "trajectory", None) = "improving"

\* the pattern is among the recorded pattern matches
Recorded(pattern, matches) ==
    \E i \in 1..Len(matches) : matches[i] = pattern

\* C20: amplify is true exactly when business and financial scores are both
\* >= 7 or at least 3 layers are improving and none deteriorating;
\* STRONG_FUNDAMENTALS and BROAD_IMPROVEMENT are recorded under those
\* conditions; COMPOUNDER_PROFILE is recorded when business score >= 8 and
\* the financial trajectory is improving, and does not set amplify.
C20_AmplifyRules ==
    call.fn = "_analyze_structural_patterns" =>
        /\ call.result.amplify
              = (StrongFundamentals(call.layers) \/ BroadImprovement(call.layers))
        /\ Recorded("STRONG_FUNDAMENTALS", call.result.pattern_matches)
              = StrongFundamentals(call.layers)
        /\ Recorded("BROAD_IMPROVEMENT", call.result.pattern_matches)
              = BroadImprovement(call.layers)
        /\ Recorded("COMPOUNDER_PROFILE", call.result.pattern_matches)
              = CompounderProfile(call.layers)

\* a compounder profile recorded without amplification
C20_Witness ==
    /\ call.fn = "_analyze_structural_patterns"
    /\ CompounderProfile(call.layers)
    /\ Recorded("COMPOUNDER_PROFILE", call.result.pattern_matches)
    /\ ~call.result.amplify

(***************************************************************************)
(* Properties of MarketTruthFramework.analyze (Spec).                      *)
(***************************************************************************)
LayerOutputKeys ==
    {"score", "normalized_score", "trajectory", "risk_level", "risk_flags",
     "strength_flags", "core_signals", "raw_data"}

Normalized == pc \in {"synthesize", "save_analysis", "get_temporal_analysis",
                      "except", "return", "done"}
Synthesized == pc \in {"save_analysis", "get_temporal_analysis", "except",
                       "return", "done"}

\* the analyzer of layer l raised or returned a dict with an 'error' key
Errored(l) == "error" \in DOMAIN analysis.layers[l].val

\* C8: once analyze has normalized the layers, all seven analyzers have been
\* run whatever failed before them, every errored layer holds
\* create_empty(error), every other layer holds normalize(raw output), and
\* the scorer has read the normalized values only.
C8_FailuresIsolated ==
    Normalized =>
        /\ DOMAIN analysis.layers = CanonicalLayers \cup {"technical"}
        /\ DOMAIN normalized_layers = DOMAIN analysis.layers
        /\ \A l \in DOMAIN normalized_layers :
              /\ DOMAIN normalized_layers[l] = LayerOutputKeys
              /\ Errored(l) =>
                    normalized_layers[l]
                        = create_empty(analysis.layers[l].val.error)
              /\ ~Errored(l) =>
                    normalized_layers[l] = normalize(analysis.layers[l].val)
        /\ Synthesized =>
              \A l \in CanonicalLayers :
                 synthesis.score_breakdown[l].raw = normalized_layers[l].score

\* one analyzer raised, one returned an error dict, a later one succeeded
C8_Witness ==
    /\ pc = "done"
    /\ analysis.layers["business_model"].val
          = [score |-> 0, error |-> "HTTP 429"]
    /\ analysis.layers["management"].val = FailedReturn
    /\ normalized_layers["management"].score = 5
    /\ normalized_layers["competitive"].trajectory = "improving"
    /\ synthesis.score_breakdown["business_model"].raw = 5

AllErrored == \A l \in CanonicalLayers : Errored(l)

C10_TemporalFailureContained ==
    /\ raised = None
    /\ pc \in {"return", "done"} =>
          /\ "synthesis" \in DOMAIN analysis
          /\ analysis.synthesis = synthesis
          /\ analysis.synthesis.conviction \in Convictions
          /\ exc # None => analysis.temporal = PyNone

\* analyze returned after the write of the history file failed
C10_Witness ==
    /\ pc = "done"
    /\ exc = "OSError: No space left on device"
    /\ history[analysis.ticker] = Corrupt
    /\ analysis.temporal = PyNone
    /\ analysis.synthesis.conviction \in Convictions

\* save_analysis has returned in this run of analyze
Saved ==
    \/ pc = "get_temporal_analysis"
    \/ pc \in {"except", "return", "done"} /\ exc \in {None, "JSONDecodeError"}

SnapshotFields ==
    {"score", "trajectory", "risk_flags", "strength_flags", "risk_level"}

\* C14: the snapshot analyze has saved holds, for every layer, the score,
\* trajectory, risk_flags, strength_flags and risk_level of the layer's
\* normalized output, the values synthesize was given in this run.
C14_SnapshotHoldsNormalizedLayers ==
    Saved =>
        LET analyses == Analyses(history[analysis.ticker])
            snapshot == analyses[Len(analyses)]
        IN  /\ DOMAIN snapshot.layers = DOMAIN normalized_layers
            /\ \A l \in DOMAIN normalized_layers :
                  \A k \in SnapshotFields :
                     snapshot.layers[l][k] = normalized_layers[l][k]

(***************************************************************************)
(* Properties of the TemporalEngine (SpecTemporal).                        *)
(***************************************************************************)
\* C11 as stated: get_temporal_analysis returns None whenever fewer than two
\* snapshots have been saved for the ticker, with zero snapshots and with
\* exactly one.
C11_NoneBelowTwoSnapshots ==
    ( /\ call.fn = "get_temporal_analysis"
      /\ ~IsCorrupt(history[call.ticker])
      /\ SnapshotCount(history[call.ticker]) < 2 )
        => call.result = PyNone

\* C11 amended: get_temporal_analysis returns None when no snapshot has been
\* saved for the ticker (there is no history file); with exactly one
\* snapshot it returns the dict {note, analysis_count: 1}, which is not
\* None; with two or more it returns the deltas.
C11_NoneWithoutHistoryFile ==
    (call.fn = "get_temporal_analysis" /\ ~IsCorrupt(history[call.ticker])) =>
        /\ SnapshotCount(history[call.ticker]) = 0 => call.result = PyNone
        /\ SnapshotCount(history[call.ticker]) = 1 =>
              call.result
                 = PyDict([note |-> "Insufficient history (need 2+ analyses)",
                           analysis_count |-> 1])
        /\ SnapshotCount(history[call.ticker]) >= 2 =>
              /\ IsDict(call.result)
              /\ "momentum" \in DOMAIN call.result.val

\* get_temporal_analysis called after the first save for a ticker
C11_Witness ==
    /\ call.fn = "get_temporal_analysis"
    /\ ~IsCorrupt(history[call.ticker])
    /\ SnapshotCount(history[call.ticker]) = 1
    /\ IsDict(call.result)
    /\ call.result.val.analysis_count = 1

Loaded(p) == Len(saves[p].history.analyses) - 1

\* C13: when two save_analysis calls on the same ticker have both finished,
\* whatever the interleaving of their load, append and write steps, the
\* ticker's history holds the snapshots it had before and both new
\* snapshots.
C13_NoLostUpdate ==
    ( /\ \A p \in Savers : saves[p].pc = "done"
      /\ saves[1].ticker = saves[2].ticker ) =>
        LET file == Analyses(history[saves[1].ticker])
            before == IF Loaded(1) < Loaded(2) THEN Loaded(1) ELSE Loaded(2)
        IN  /\ Len(file) = before + 2
            /\ {file[i] : i \in (before + 1)..Len(file)}
                  = {Snapshot(saves[p].analysis, saves[p].synthesis) :
                        p \in Savers}

(***************************************************************************)
(* Properties of direct calls, continued (SpecEngine).                     *)
(***************************************************************************)
\* the canonical layers a call of the scorer was given
UsedLayers == CanonicalLayers \cap DOMAIN call.layers

\* the weight the scorer is to use for a canonical layer
WeightOf(l) == IF l \in DOMAIN call.weights THEN call.weights[l] ELSE ToR(1)

\* sum over the used layers of the weights
SumOfWeights == RSumOver(UsedLayers, [l \in UsedLayers |-> WeightOf(l)])

\* sum over the used layers of score times weight
SumOfProducts ==
    RSumOver(UsedLayers,
             [l \in UsedLayers |->
                 RMul(ToR(call.layers[l].score), WeightOf(l))])

\* C21: _calculate_weighted_score uses only the 7 canonical layers that are
\* present (a technical layer changes nothing), takes weight 1.0 for a layer
\* missing from the weight map, returns sum(score*weight) / (10*sum(weight))
\* * 100, returns 50 when the weights of the layers used sum to 0 (no
\* canonical layer present included), and records raw score, weight and
\* score*weight for exactly the layers used.
C21_WeightedScoreFormula ==
    call.fn = "_calculate_weighted_score"
        => /\ IF SumOfWeights = ToR(0)
              THEN call.result[1] = ToR(50)
              ELSE RMul(call.result[1], RMul(ToR(10), SumOfWeights))
                      = RMul(ToR(100), SumOfProducts)
           /\ DOMAIN call.result[2] = UsedLayers
           /\ \A l \in UsedLayers :
                 /\ call.result[2][l].raw = call.layers[l].score
                 /\ call.result[2][l].weight = WeightOf(l)
                 /\ call.result[2][l].weighted
                       = RMul(ToR(call.layers[l].score), WeightOf(l))

\* a technical layer next to canonical layers of different scores, under a
\* weight map that lacks some of them
C21_Witness ==
    /\ call.fn = "_calculate_weighted_score"
    /\ "technical" \in DOMAIN call.layers
    /\ call.weights = SoftwareEntry
    /\ UsedLayers = {"business_model", "management"}
    /\ call.layers["business_model"].score = 10
    /\ call.layers["management"].score = 0
    /\ call.result[2]["management"].weight = ToR(1)
    /\ call.result[1] = R(800, 10)

\* the counts of green and red flags and the score normalize reads
GreenCount == Len(Get(call.raw_output, "green_flags", <<>>))
RedCount == Len(Get(call.raw_output, "red_flags", <<>>))
ScoreRead == Get(call.raw_output, "score", 5)

\* C22: normalize derives the trajectory from the flag counts G (green) and
\* R (red): improving if G > 1.5*R; otherwise deteriorating if R > 1.5*G;
\* otherwise stable if the score is above 0; otherwise unknown.
C22_TrajectoryRule ==
    call.fn = "normalize"
        => call.result.trajectory
              = (IF 10 * GreenCount > 15 * RedCount THEN "improving"
                 ELSE IF 10 * RedCount > 15 * GreenCount THEN "deteriorating"
                 ELSE IF ScoreRead > 0 THEN "stable"
                 ELSE "unknown")

\* no flag at all and a positive score: stable, the two counts being equal
C22_Witness ==
    /\ call.fn = "normalize"
    /\ GreenCount = 0
    /\ RedCount = 0
    /\ ScoreRead = 7
    /\ call.result.trajectory = "stable"

\* the red flags of the call, as a list and as a set
RedFlags == Get(call.raw_output, "red_flags", <<>>)
RedFlagSet == {RedFlags[i] : i \in 1..Len(RedFlags)}
CriticalSet == {critical_flags[i] : i \in 1..Len(critical_flags)}
HighRiskSet == {high_risk_flags[i] : i \in 1..Len(high_risk_flags)}

\* C23: for every list of red flags, in any order, normalize sets risk_level
\* to critical if some flag is in the critical set; otherwise high if some
\* flag is in the high-risk set; otherwise medium if there are more than 3
\* red flags; otherwise low if there is at least one; otherwise minimal.
C23_RiskLevelRule ==
    call.fn = "normalize"
        => call.result.risk_level
              = (IF RedFlagSet \cap CriticalSet # {} THEN "critical"
                 ELSE IF RedFlagSet \cap HighRiskSet # {} THEN "high"
                 ELSE IF Len(RedFlags) > 3 THEN "medium"
                 ELSE IF Len(RedFlags) >= 1 THEN "low"
                 ELSE "minimal")

\* a high-risk flag met before a critical one
C23_Witness ==
    /\ call.fn = "normalize"
    /\ RedFlags = <<"WEAK_SIGNAL", "HIGH_DEBT_TO_EBITDA",
                    "NEGATIVE_FREE_CASH_FLOW">>
    /\ call.result.risk_level = "critical"

\* C28: over the whole pipeline synthesize returns conviction HIGH only if
\* the business_model score is at least 8 and at least 3 layers are
\* improving; a business score of at least 8 with fewer than 3 improving
\* layers gives bull_prob 0.60 (less after a renormalisation), which does
\* not pass the strict bull_prob > 0.60 test.
C28_HighNeedsMoatAndBreadth ==
    call.fn = "synthesize"
        => LET moat == BusinessScore(call.layers) >= 8
               breadth == CountTrajectory(call.layers, "improving") >= 3
               belief == call.result.belief_state
               rest == RAdd(BearUpdated(call.layers),
                            DistressUpdated(call.layers))
           IN  /\ call.result.conviction = "HIGH" => (moat /\ breadth)
               /\ (moat /\ ~breadth /\ ~call.result.disqualified)
                     => /\ RLe(belief.bull_prob, R(6, 10))
                        /\ RLe(RAdd(R(6, 10), rest), ToR(1))
                              => belief.bull_prob = R(6, 10)
                        /\ call.result.conviction # "HIGH"

\* a business score of 9 alone: score 90, bull_prob 0.60, MEDIUM
C28_Witness ==
    /\ call.fn = "synthesize"
    /\ BusinessScore(call.layers) >= 8
    /\ CountTrajectory(call.layers, "improving") < 3
    /\ RGe(call.result.weighted_score, ToR(70))
    /\ call.result.belief_state.bull_prob = R(6, 10)
    /\ call.result.conviction = "MEDIUM"

\* C29: in every result of synthesize that is not disqualified and not
\* SHORT, the returned weighted_score (rounded to 2 decimals) and the
\* returned conviction agree with the thresholds of the decision table: a
\* returned score of at least 65 comes with MEDIUM or HIGH, one of at least
\* 55 with at least LOW, and HIGH comes with a returned score of at least 70.
C29_ReturnedScoreAgrees ==
    (/\ call.fn = "synthesize"
     /\ ~call.result.disqualified
     /\ call.result.conviction # "SHORT")
        => /\ RGe(call.result.weighted_score, ToR(65))
                 => call.result.conviction \in {"MEDIUM", "HIGH"}
           /\ RGe(call.result.weighted_score, ToR(55))
                 => call.result.conviction \in {"LOW", "MEDIUM", "HIGH"}
           /\ call.result.conviction = "HIGH"
                 => RGe(call.result.weighted_score, ToR(70))

\* the belief state a call returned
ReturnedBelief ==
    IF call.fn = "synthesize" THEN call.result.belief_state ELSE call.result

C24_ComparesLastTwo ==
    (/\ call.fn = "get_temporal_analysis"
     /\ ~IsCorrupt(history[call.ticker])
     /\ SnapshotCount(history[call.ticker]) >= 2)
        => LET analyses == Analyses(history[call.ticker])
               latest == analyses[Len(analyses)].layers
               previous == analyses[Len(analyses) - 1].layers
               both == DOMAIN latest \cap DOMAIN previous
               diff == [l \in both |-> latest[l].score - previous[l].score]
               total == SumOver(both, diff)
               changes == call.result.val.layer_changes
           IN  /\ call.result.type = "dict"
               /\ DOMAIN changes = both
               /\ \A l \in both :
                     /\ changes[l].delta = diff[l]
                     /\ changes[l].direction
                           = (IF diff[l] > 0 THEN "improving"
                              ELSE IF diff[l] < 0 THEN "deteriorating"
                              ELSE "stable")
               /\ both # {}
                     => call.result.val.momentum.direction
                           = (IF 2 * total > Cardinality(both)
                              THEN "IMPROVING"
                              ELSE IF 2 * total < 0 - Cardinality(both)
                              THEN "DETERIORATING"
                              ELSE "STABLE")

\* three snapshots, the first unlike the second, the second unlike the third
C24_Witness ==
    /\ call.fn = "get_temporal_analysis"
    /\ ~IsCorrupt(history[call.ticker])
    /\ SnapshotCount(history[call.ticker]) = 3
    /\ LET analyses == Analyses(history[call.ticker])
       IN  /\ analyses[1] # analyses[2]
           /\ analyses[2] # analyses[3]
           /\ analyses[1] # analyses[3]
    /\ call.result.val.layer_changes["market_structure"].direction
          = "improving"
    /\ call.result.val.momentum.direction = "IMPROVING"

\* the call computed deltas between two snapshots
ReportsDeltas ==
    \/ call.fn = "_compute_deltas"
    \/ /\ call.fn = "get_temporal_analysis"
       /\ call.result.type = "dict"
       /\ "momentum" \in DOMAIN call.result.val

\* the dict of deltas, and the two snapshots it was computed from
DeltasOf == IF call.fn = "_compute_deltas" THEN call.result ELSE call.result.val

ComparedLatest ==
    IF call.fn = "_compute_deltas" THEN call.latest
    ELSE Analyses(history[call.ticker])[SnapshotCount(history[call.ticker])]

ComparedPrevious ==
    IF call.fn = "_compute_deltas" THEN call.previous
    ELSE Analyses(history[call.ticker])[SnapshotCount(history[call.ticker]) - 1]

\* the layers in both snapshots and the sum of their score changes
BothLayers == DOMAIN ComparedLatest.layers \cap DOMAIN ComparedPrevious.layers

TotalChange ==
    SumOver(BothLayers,
            [l \in BothLayers |->
                ComparedLatest.layers[l].score
                - ComparedPrevious.layers[l].score])

\* the average change is above 1.0, below -1.0
AverageAboveOne == TotalChange > Cardinality(BothLayers)
AverageBelowMinusOne == TotalChange < 0 - Cardinality(BothLayers)

\* C25 as claimed: the acceleration label is ACCELERATING whenever the
\* absolute value of the average delta exceeds 1.0, a large negative average
\* included; otherwise DECELERATING if the average is below -1.0; otherwise
\* STEADY.
C25_AcceleratingByMagnitude ==
    (ReportsDeltas /\ BothLayers # {})
        => DeltasOf.momentum.acceleration
              = (IF AverageAboveOne \/ AverageBelowMinusOne
                 THEN "ACCELERATING"
                 ELSE IF AverageBelowMinusOne THEN "DECELERATING"
                 ELSE "STEADY")

\* C25, amended: the acceleration label is ACCELERATING exactly when the
\* average delta is above 1.0 and DECELERATING exactly when it is below
\* -1.0; a large negative average is labelled DECELERATING.
C25_AccelerationBySign ==
    (ReportsDeltas /\ BothLayers # {})
        => /\ DeltasOf.momentum.acceleration = "ACCELERATING"
                 <=> AverageAboveOne
           /\ DeltasOf.momentum.acceleration = "DECELERATING"
                 <=> AverageBelowMinusOne

\* scores falling by more than one point a layer on average
C25_Witness ==
    /\ ReportsDeltas
    /\ BothLayers # {}
    /\ AverageBelowMinusOne
    /\ DeltasOf.momentum.acceleration = "DECELERATING"
    /\ DeltasOf.momentum.direction = "DETERIORATING"

\* C26 as claimed: for no pair of consecutive snapshots does
\* get_temporal_analysis report momentum.acceleration STEADY.
C26_SteadyUnreachable ==
    (/\ call.fn = "get_temporal_analysis"
     /\ ReportsDeltas
     /\ BothLayers # {})
        => DeltasOf.momentum.acceleration # "STEADY"

\* C26, amended: STEADY is reported exactly when the average delta lies in
\* [-1.0, 1.0], hence whenever the momentum direction is STABLE and also
\* for averages between 0.5 and 1.0 in size.
C26_SteadyWithinOne ==
    (ReportsDeltas /\ BothLayers # {})
        => /\ DeltasOf.momentum.acceleration = "STEADY"
                 <=> (~AverageAboveOne /\ ~AverageBelowMinusOne)
           /\ DeltasOf.momentum.direction = "STABLE"
                 => DeltasOf.momentum.acceleration = "STEADY"

\* get_temporal_analysis on a history whose last two snapshots differ by
\* 0.625 a layer on average
C26_Witness ==
    /\ call.fn = "get_temporal_analysis"
    /\ ReportsDeltas
    /\ 8 * TotalChange = 5 * Cardinality(BothLayers)
    /\ DeltasOf.momentum.direction = "IMPROVING"
    /\ DeltasOf.momentum.acceleration = "STEADY"

\* the risk flags of all layers of a snapshot
AllRiskFlags(snapshot) ==
    UNION {FlagSet(snapshot.layers[l]) : l \in DOMAIN snapshot.layers}

\* C27: the risk drift is computed over the risk flags of all layers of the
\* two snapshots, also when a layer exists in only one of them: new_risks is
\* the set of flags found in some layer of the latest snapshot and in no
\* layer of the previous one, resolved_risks the converse, persistent_risks
\* the flags found in both.
C27_RiskDriftOverAllLayers ==
    ReportsDeltas
        => LET latest_flags == AllRiskFlags(ComparedLatest)
               previous_flags == AllRiskFlags(ComparedPrevious)
               drift == DeltasOf.risk_drift
           IN  /\ drift.new_risks = latest_flags \ previous_flags
               /\ drift.resolved_risks = previous_flags \ latest_flags
               /\ drift.persistent_risks = latest_flags \cap previous_flags

====
